---- MODULE Spec2Model ----
(***************************************************************************)
(* pocket2evernote: the checkpointed batch pipeline of index.js.           *)
(*                                                                         *)
(* The specifications below share their definitions:                       *)
(*   SpecCheckpoint  the CheckpointManager class driven operation by       *)
(*                   operation (constructor, updateProgress, save, load,   *)
(*                   cleanup) over a small file system;                    *)
(*   SpecRecord      one processRecord call, await by await;               *)
(*   SpecExtract     one processRecord call with the extractors answered   *)
(*                   by the network and the browser;                       *)
(*   SpecBrowser     BrowserManager, scrapeWithPuppeteer and the shutdown  *)
(*                   handlers, await by await;                             *)
(*   SpecLease       the getPage calls of one batch around the restart of  *)
(*                   the browser;                                          *)
(*   Spec            convertCsvToEnex: batches, commits, snapshots, the    *)
(*                   success and failure tails, signals and re-runs;       *)
(*   FairSpec        Spec with the fairness of the event loop;             *)
(*   SpecSeven       Spec on up to seven records in batches of three;      *)
(*   SpecPacing      the batch loop reduced to its pacing delay;           *)
(*   SpecSplit       split-enex.js.                                        *)
(***************************************************************************)
EXTENDS Integers, Sequences, FiniteSets, TLC

VARIABLES
    pr,         \* the processRecord call under way: its position, its locals,
                \* the extractors called and what the first one returned
    cm,         \* the CheckpointManager instance: paths, interval, progress
    fs,         \* the files the manager and the run touch: path -> content
    clock,      \* Date.now(), non-decreasing
    call,       \* the last CheckpointManager operation called and its outcome
    doc,        \* the final document the run last wrote to the output path
    options,    \* the command-line options of the process
    total,      \* the number of rows the CSV file yields (after --limit)
    pc,         \* where convertCsvToEnex stands; "off": no process runs
    exit,       \* how the last process ended: "none", "ok", "failed", "signal"
    previous,   \* how the process before this one ended; "none": there was none
    restored,   \* whether the process restored its progress from a snapshot
    startIndex, \* index of the first record the process handles
    batchStart, \* the loop variable of the batch loop
    settled,    \* the current batch: per position, the result or NoResult
    outOfOrder, \* a record of the batch settled before one of lower index
    results,    \* the notes the process has collected
    invoked,    \* the indices processRecord was called for, in call order
    tail,       \* the tail the process took: "none", "ok", "failed"
    allNotes,   \* the note list handed to document generation
    shutdown,   \* a signal was received: gracefulShutdown awaits the browser
    web,        \* what the network and the browser last answered an extractor
    bm,         \* the BrowserManager instance: browser, pagePool, processedCount
    chrome,     \* the browser processes launched: handle -> state
    tabs,       \* the pages opened: handle -> state, browser, lease
    sc,         \* the scrapeWithPuppeteer calls: position and locals
    cl,         \* the BrowserManager.cleanup calls: caller, position, outcome
    halt,       \* which caller of process.exit ended the process; "none"
    pace,       \* the batch loop of convertCsvToEnex reduced to its pacing
    split,      \* a split-enex process: its option, its notes, the files written
    fb,         \* one batch of the batch loop: its try block and its catch block
    gen         \* the document generation of a run whose notes may fail to build

runVars ==
    <<options, total, pc, exit, previous, restored, startIndex, batchStart, settled,
      outOfOrder, results, invoked, tail, allNotes, shutdown>>
browserVars == <<bm, chrome, tabs, sc, cl, halt>>
toolVars == <<pace, split, fb, gen>>
envVars == <<web, browserVars, toolVars>>
vars == <<pr, cm, fs, clock, call, doc, runVars, envVars>>

\* what each specification leaves alone
CkFrame == UNCHANGED <<pr, runVars, envVars>>
PrFrame == UNCHANGED <<cm, fs, clock, call, doc, runVars, envVars>>
RunFrame == UNCHANGED <<pr, call, envVars>>

-----------------------------------------------------------------------------
(* Bounds of the model.                                                    *)

MaxCount == 5
MaxClock == 1
MaxIntervalOpt == 2
MaxOps == 2
MaxRecords == 2
MaxBatch == 2
MaxInterval == 2
MaxCalls == 1
MaxCleanups == 2

-----------------------------------------------------------------------------
(* JavaScript values.                                                      *)

\* null / undefined
JsNull == [null |-> TRUE]

\* a falsy string or null where the code tests `if (content)`
NoContent == <<>>

Last(s) == s[Len(s)]
Front(s) == SubSeq(s, 1, Len(s) - 1)

\* obj.name = val on a JS object (the property is created when absent)
SetField(obj, name, val) ==
    [f \in (DOMAIN obj) \cup {name} |-> IF f = name THEN val ELSE obj[f]]

\* no processRecord call under way
NoResult == [status |-> "pending", note |-> JsNull, success |-> FALSE]
PrIdle ==
    [ pc |-> "idle", row |-> [url |-> 0, wellFormed |-> TRUE], opts |-> JsNull,
      called |-> <<>>, lightweight |-> NoContent,
      scrapedContent |-> NoContent, labelled |-> NoContent,
      result |-> NoResult ]

\* no extractor has been answered yet
NoAnswer == [http |-> JsNull, browser |-> JsNull, raised |-> FALSE, requests |-> 0]

\* `null` where a browser or a page handle is expected; the handles are
\* the numbers of the calls that launched the browser or opened the page
NoHandle == 0
Calls == 1..MaxCalls
Cleanups == 1..MaxCleanups

\* new BrowserManager()
NewBrowserManager ==
    [browser |-> NoHandle, pagePool |-> <<>>, processedCount |-> 0]
\* a scrapeWithPuppeteer call not made yet: `let page = null`
ScIdle ==
    [pc |-> "idle", browser |-> NoHandle, page |-> NoHandle, text |-> NoContent,
     restarted |-> FALSE]
\* a cleanup call not made yet
ClIdle ==
    [pc |-> "idle", by |-> "none", browser |-> NoHandle, raised |-> FALSE,
     caller |-> NoHandle]
NoTab == [state |-> "none", of |-> NoHandle, lease |-> "none"]

BrowserIdle ==
    /\ bm = NewBrowserManager
    /\ chrome = [b \in Calls |-> "none"]
    /\ tabs = [t \in Calls |-> NoTab]
    /\ sc = [c \in Calls |-> ScIdle]
    /\ cl = [k \in Cleanups |-> ClIdle]
    /\ halt = "none"

\* no batch loop is paced and no split-enex process has run
PaceIdle == [pc |-> "off", batchSize |-> 0, rows |-> 0, batchStart |-> 0, delayMs |-> 0]
SplitIdle ==
    [pc |-> "off", option |-> <<>>, notes |-> <<>>, notesPerFile |-> 0,
     fileIndex |-> 0, files |-> <<>>, exit |-> "none"]

FbIdle ==
    [pc |-> "off", size |-> 0, success |-> <<>>, k |-> 0, i |-> 0,
     results |-> <<>>, updates |-> <<>>, caught |-> FALSE]

GenIdle ==
    [pc |-> "off", notes |-> <<>>, before |-> [kind |-> "absent"],
     rebuilt |-> FALSE, thrownBy |-> "none", disk |-> "ok", tail |-> "none"]

EnvIdle ==
    /\ web = NoAnswer
    /\ BrowserIdle
    /\ pace = PaceIdle
    /\ split = SplitIdle
    /\ fb = FbIdle
    /\ gen = GenIdle

\* no convertCsvToEnex process has run
RunIdle ==
    /\ options = JsNull
    /\ total = 0
    /\ pc = "off"
    /\ exit = "none"
    /\ previous = "none"
    /\ restored = FALSE
    /\ startIndex = 0
    /\ batchStart = 0
    /\ settled = <<>>
    /\ outOfOrder = FALSE
    /\ results = <<>>
    /\ invoked = <<>>
    /\ tail = "none"
    /\ allNotes = <<>>
    /\ shutdown = FALSE

-----------------------------------------------------------------------------
(* Paths.  A path is the sequence of its pieces, the last one the          *)
(* extension: <<"out", ".enex">> is out.enex.                              *)

\* outputPath.replace(/\.enex$/, repl)
ReplaceEnexSuffix(path, repl) ==
    IF Len(path) > 0 /\ Last(path) = ".enex"
    THEN Front(path) \o <<repl>>
    ELSE path

CheckpointPath(outputPath) == ReplaceEnexSuffix(outputPath, ".checkpoint.json")

OutputPaths ==
    { <<"out", ".enex">>, <<"out", ".xml">>, <<"out", ".enex", ".bak">> }

AllPaths == OutputPaths \cup { CheckpointPath(p) : p \in OutputPaths }

-----------------------------------------------------------------------------
(* File contents.                                                          *)

Absent == [kind |-> "absent"]
\* text JSON.parse rejects: a truncated or foreign file
Garbage == [kind |-> "garbage"]
\* JSON.stringify(value, null, 2): the text of a JSON value
Stringify(value) == [kind |-> "json", value |-> value]
\* the final archive written from a note list
EnexDocument(notes) == [kind |-> "enex", notes |-> notes]

ParseThrows(content) == content.kind # "json"
Parse(content) == content.value

\* fs.writeFileSync(path, content): wr is what the disk does with it.
\* "ok" writes, "denied" fails before the file is opened, "partial" fails
\* after the file was truncated.
WriteOutcomes == {"ok", "denied", "partial"}
WriteThrows(wr) == wr # "ok"
WriteFile(files, path, content, wr) ==
    CASE wr = "ok" -> [files EXCEPT ![path] = content]
      [] wr = "partial" -> [files EXCEPT ![path] = Garbage]
      [] OTHER -> files

-----------------------------------------------------------------------------
(* Date.now()                                                              *)

Tick(c) == IF c < MaxClock THEN c + 1 ELSE c

-----------------------------------------------------------------------------
(* CheckpointManager                                                       *)

DefaultInterval == 100
Unset == 0 - 1

\* parseInt(option || dflt) for an option given as a decimal string
ParseIntOr(option, dflt) == IF option = Unset THEN dflt ELSE option

InitialProgress(now) ==
    [ processedCount     |-> 0,
      totalCount         |-> 0,
      lastProcessedIndex |-> 0 - 1,
      failedUrls         |-> <<>>,
      processedNotes     |-> <<>>,
      timestamp          |-> now,
      startTime          |-> now ]

NewCheckpointManager(outputPath, intervalOpt, now) ==
    [ outputPath     |-> outputPath,
      checkpointPath |-> CheckpointPath(outputPath),
      interval       |-> ParseIntOr(intervalOpt, DefaultInterval),
      progress       |-> InitialProgress(now) ]

HasCheckpoint(m, files) == files[m.checkpointPath] # Absent

\* What the log lines of loadCheckpoint do with the parsed value: they read
\* properties of it and the length of its failedUrls.
LoadLogThrows(value) ==
    \/ value = JsNull
    \/ "failedUrls" \notin DOMAIN value

\* a load that resets the progress when it fails
LoadCheckpoint_Reset(m, files) ==
    IF ~HasCheckpoint(m, files) \/ ParseThrows(files[m.checkpointPath])
    THEN [cm |-> [m EXCEPT !.progress = InitialProgress(0)], ret |-> JsNull]
    ELSE [cm |-> [m EXCEPT !.progress = Parse(files[m.checkpointPath])],
          ret |-> Parse(files[m.checkpointPath])]

\* loadCheckpoint(): the manager afterwards and the value returned
LoadCheckpoint(m, files) ==
    IF ~HasCheckpoint(m, files)
    THEN [cm |-> m, ret |-> JsNull]
    ELSE IF ParseThrows(files[m.checkpointPath])
    THEN [cm |-> m, ret |-> JsNull]
    ELSE LET value == Parse(files[m.checkpointPath])
             loaded == [m EXCEPT !.progress = value]
         IN  IF LoadLogThrows(value)
             THEN [cm |-> loaded, ret |-> JsNull]
             ELSE [cm |-> loaded, ret |-> value]

\* saveCheckpoint(): the timestamp is set, then the file is written; a
\* failed write is reported and swallowed.
SaveCheckpoint_Rethrow(m, files, now, wr) ==
    LET stamped == [m EXCEPT !.progress = SetField(m.progress, "timestamp", now)]
    IN  [ cm |-> stamped,
          fs |-> WriteFile(files, m.checkpointPath, Stringify(stamped.progress), wr),
          raised |-> WriteThrows(wr) ]

SaveCheckpoint(m, files, now, wr) ==
    LET stamped == [m EXCEPT !.progress = SetField(m.progress, "timestamp", now)]
    IN  [ cm |-> stamped,
          fs |-> WriteFile(files, m.checkpointPath, Stringify(stamped.progress), wr),
          raised |-> FALSE ]

\* saveIntermediateEnex(): whether the intermediate archive was written
IntermediateWritten(m, wr) ==
    /\ Len(m.progress.processedNotes) # 0
    /\ ~WriteThrows(wr)

\* the save keyed on the last index instead of the count
SaveDue_LastIndex(processedCount, interval) ==
    (processedCount - 1) % interval = 0

\* the condition of updateProgress that triggers the save and the flush
SaveDue(processedCount, interval) == processedCount % interval = 0

\* an updateProgress that appends its note and id arguments even when null
UpdateProgress_AlwaysPush(m, files, now, processedCount, totalCount, lastIndex, note, failedUrl, wr) ==
    [ cm |-> [m EXCEPT !.progress =
                [@ EXCEPT !.processedCount = processedCount,
                          !.totalCount = totalCount,
                          !.lastProcessedIndex = lastIndex,
                          !.processedNotes = Append(@, note),
                          !.failedUrls = Append(@, failedUrl)]],
      fs |-> files, clock |-> now,
      saved |-> FALSE, flushed |-> FALSE, interWritten |-> FALSE ]

\* updateProgress(processedCount, totalCount, lastIndex, note, failedUrl)
\* on a manager whose progress is a progress object.  An argument left out
\* is JsNull.  saved, flushed: saveCheckpoint and saveIntermediateEnex were
\* called.
UpdateProgress(m, files, now, processedCount, totalCount, lastIndex, note, failedUrl, wr) ==
    LET p1 == [m.progress EXCEPT !.processedCount = processedCount,
                                 !.totalCount = totalCount,
                                 !.lastProcessedIndex = lastIndex]
        p2 == IF note # JsNull
              THEN [p1 EXCEPT !.processedNotes = Append(@, note)]
              ELSE p1
        p3 == IF failedUrl # JsNull
              THEN [p2 EXCEPT !.failedUrls = Append(@, failedUrl)]
              ELSE p2
        m3 == [m EXCEPT !.progress = p3]
        s == SaveCheckpoint(m3, files, Tick(now), wr)
    IN  IF SaveDue(processedCount, m.interval)
        THEN [cm |-> s.cm, fs |-> s.fs, clock |-> Tick(now),
              saved |-> TRUE, flushed |-> TRUE,
              interWritten |-> IntermediateWritten(s.cm, wr)]
        ELSE [cm |-> m3, fs |-> files, clock |-> now,
              saved |-> FALSE, flushed |-> FALSE, interWritten |-> FALSE]

\* cleanup(): unlink the snapshot when it exists; unlinkOk is whether the
\* file system lets it go.  A failure is reported and swallowed.
Cleanup(m, files, unlinkOk) ==
    IF HasCheckpoint(m, files) /\ unlinkOk
    THEN [files EXCEPT ![m.checkpointPath] = Absent]
    ELSE files

\* whether unlinkSync throws inside cleanup(), and whether cleanup() lets
\* the error out of its catch block
UnlinkThrows(m, files, unlinkOk) == HasCheckpoint(m, files) /\ ~unlinkOk
CleanupRaises(m, files, unlinkOk) == FALSE

-----------------------------------------------------------------------------
(* SpecCheckpoint: a CheckpointManager called operation by operation.      *)

IntervalOptions == (1..MaxIntervalOpt) \cup {Unset}

NoCall == [op |-> "new", nth |-> 0, count |-> 0, saved |-> FALSE,
           flushed |-> FALSE, ret |-> JsNull, before |-> JsNull,
           failed |-> FALSE, raised |-> FALSE]

\* A note as the scheduler hands it to updateProgress
SampleNote(i) == [src |-> i, content |-> NoContent]
FailedId(i) == [record |-> i]

\* What an earlier process can have left at the checkpoint path: a
\* snapshot saveCheckpoint wrote, or the torn text of a write that failed.
ForeignSnapshot ==
    [ processedCount     |-> 2,
      totalCount         |-> MaxCount,
      lastProcessedIndex |-> 1,
      failedUrls         |-> <<FailedId(1)>>,
      processedNotes     |-> <<SampleNote(0)>>,
      timestamp          |-> 0,
      startTime          |-> 0 ]
ForeignContents == { Garbage, Stringify(ForeignSnapshot) }

CkInit ==
    /\ pr = PrIdle
    /\ EnvIdle
    /\ RunIdle
    /\ \E p \in OutputPaths, i \in IntervalOptions :
           cm = NewCheckpointManager(p, i, 0)
    /\ fs = [p \in AllPaths |-> Absent]
    /\ clock = 0
    /\ call = NoCall
    /\ doc = Absent

\* The count the next updateProgress commits
NextCount(m) == m.progress.processedCount + 1

\* The arguments the scheduler passes for record i.  The fixture covers the
\* three shapes of a call: (note, no id), (note, id) and (no note, id).
ArgNote(i) == IF i = 2 THEN JsNull ELSE SampleNote(i)
ArgFailed(i) == IF i % 2 = 1 \/ i = 2 THEN FailedId(i) ELSE JsNull

CkUpdateProgress ==
    /\ CkFrame
    /\ NextCount(cm) <= MaxCount
    /\ \E wr \in IF SaveDue(NextCount(cm), cm.interval)
                  THEN WriteOutcomes ELSE {"ok"} :
         LET n == NextCount(cm)
             r == UpdateProgress(cm, fs, clock, n, MaxCount, n - 1,
                      ArgNote(n - 1), ArgFailed(n - 1), wr)
         IN  /\ cm' = r.cm
             /\ fs' = r.fs
             /\ clock' = r.clock
             /\ call' = [NoCall EXCEPT !.op = "updateProgress", !.nth = call.nth,
                                       !.count = n, !.saved = r.saved,
                                       !.flushed = r.flushed]
    /\ UNCHANGED doc

CkSaveCheckpoint ==
    /\ CkFrame
    /\ call.nth < MaxOps
    /\ \E wr \in WriteOutcomes :
         LET s == SaveCheckpoint(cm, fs, Tick(clock), wr)
         IN  /\ cm' = s.cm
             /\ fs' = s.fs
             /\ call' = [NoCall EXCEPT !.op = "saveCheckpoint",
                                       !.nth = call.nth + 1, !.saved = TRUE,
                                       !.failed = WriteThrows(wr),
                                       !.raised = s.raised]
    /\ clock' = Tick(clock)
    /\ UNCHANGED doc

CkLoadCheckpoint ==
    /\ CkFrame
    /\ call.nth < MaxOps
    /\ LET l == LoadCheckpoint(cm, fs)
       IN  /\ cm' = l.cm
           /\ call' = [NoCall EXCEPT !.op = "loadCheckpoint", !.nth = call.nth + 1, !.ret = l.ret,
                                     !.before = cm.progress]
    /\ UNCHANGED <<fs, clock, doc>>

CkCleanup ==
    /\ CkFrame
    /\ call.nth < MaxOps
    /\ \E unlinkOk \in BOOLEAN :
         /\ fs' = Cleanup(cm, fs, unlinkOk)
         /\ call' = [NoCall EXCEPT !.op = "cleanup", !.nth = call.nth + 1,
                                   !.failed = UnlinkThrows(cm, fs, unlinkOk),
                                   !.raised = CleanupRaises(cm, fs, unlinkOk)]
    /\ UNCHANGED <<cm, clock, doc>>

\* fs.writeFileSync(options.output, xml) of the success tail
CkWriteOutput ==
    /\ CkFrame
    /\ call.nth < MaxOps
    /\ LET d == EnexDocument(cm.progress.processedNotes)
       IN  /\ fs' = WriteFile(fs, cm.outputPath, d, "ok")
           /\ doc' = d
    /\ call' = [NoCall EXCEPT !.op = "writeOutput", !.nth = call.nth + 1]
    /\ UNCHANGED <<cm, clock>>

\* An earlier process left a file at the checkpoint path
CkForeignFile ==
    /\ CkFrame
    /\ call.op = "new"
    /\ \E c \in ForeignContents : fs' = [fs EXCEPT ![cm.checkpointPath] = c]
    /\ call' = [NoCall EXCEPT !.op = "foreign", !.nth = call.nth + 1]
    /\ UNCHANGED <<cm, clock, doc>>

CkNext ==
    \/ CkUpdateProgress
    \/ CkSaveCheckpoint
    \/ CkLoadCheckpoint
    \/ CkCleanup
    \/ CkWriteOutput
    \/ CkForeignFile

SpecCheckpoint == CkInit /\ [][CkNext]_vars

-----------------------------------------------------------------------------
(* Text.  A text is the sequence of its pieces: tags, line breaks, the     *)
(* phrases the code searches for, the method markers, and other text.      *)

NL == "\n"
FailedToScrape == "Failed to scrape"
CouldNotExtract == "Content could not be extracted"
MarkerHttp == "[Scraped via HTTP]"
MarkerBrowser == "[Scraped via Browser]"
MarkerFailed == "[Scraping Failed]"
Markers == {MarkerHttp, MarkerBrowser, MarkerFailed}

\* content.includes(piece)
Includes(content, piece) == \E i \in 1..Len(content) : content[i] = piece

\* the number of method markers in a text
MarkerCount(content) ==
    Cardinality({ i \in 1..Len(content) : content[i] \in Markers })

\* The match of /(<p>.*?<\/p>)/ in content: <<first, last>> positions of the
\* leftmost <p> that has a </p> after it on the same line, up to the nearest
\* such </p>; <<0, 0>> when the pattern does not match ('.' matches no line
\* break).
ClosesAt(content, i, j) ==
    /\ content[i] = "<p>"
    /\ content[j] = "</p>"
    /\ \A k \in (i + 1)..(j - 1) : content[k] # NL
FirstParagraph(content) ==
    LET starts == { i \in 1..Len(content) :
                      \E j \in (i + 1)..Len(content) : ClosesAt(content, i, j) }
    IN  IF starts = {} THEN <<0, 0>>
        ELSE LET i == CHOOSE x \in starts : \A y \in starts : x <= y
                 ends == { j \in (i + 1)..Len(content) : ClosesAt(content, i, j) }
             IN  <<i, CHOOSE x \in ends : \A y \in ends : x <= y>>

\* methodLabel[method]
MethodLabel(method) ==
    CASE method = "lightweight" -> MarkerHttp
      [] method = "browser" -> MarkerBrowser
      [] method = "failed" -> MarkerFailed

MarkerParagraph(label) == <<NL, "<p>", "<small>", label, "</small>", "</p>">>

\* addScrapingMethodInfo(content, method)
AddScrapingMethodInfo(content, method) ==
    IF content = NoContent THEN content
    ELSE IF Includes(content, FailedToScrape) \/ Includes(content, CouldNotExtract)
    THEN LET m == FirstParagraph(content)
         IN  IF m = <<0, 0>> THEN content
             ELSE SubSeq(content, 1, m[2]) \o MarkerParagraph(MarkerFailed)
                  \o SubSeq(content, m[2] + 1, Len(content))
    ELSE content \o MarkerParagraph(MethodLabel(method))

\* What the extractors return.
\* the paragraphs built from the page text, each followed by a line break
Paragraphs == <<"<p>", "text", "</p>", NL>>
\* `<p>Content extracted from ${url}</p>` when no paragraph was built
Placeholder == <<"<p>", "text", "</p>">>
\* the reference block of a binary URL or a non-text response
ReferenceBlock == <<"<div>", NL, "<p>", "text", "</p>", NL, "</div>">>
\* `<p>Content could not be extracted from ${url}</p>`
NotExtracted == <<"<p>", CouldNotExtract, "text", "</p>">>
\* `<p>Failed to scrape content from ${url}: ${error.message}</p>` with a
\* message of one line, and with a message of several lines
FailedOneLine == <<"<p>", FailedToScrape, "text", "</p>">>
FailedManyLines == <<"<p>", FailedToScrape, "text", NL, "text", "</p>">>
\* paragraphs of a page whose own text holds one of the phrases
PhraseInArticle == <<"<p>", "text", FailedToScrape, "</p>", NL>>

LightweightTexts ==
    { Paragraphs, Placeholder, ReferenceBlock, NotExtracted, FailedOneLine,
      FailedManyLines, PhraseInArticle }
BrowserTexts ==
    { Paragraphs, Placeholder, NotExtracted, FailedOneLine, FailedManyLines,
      PhraseInArticle }

-----------------------------------------------------------------------------
(* processRecord                                                           *)

\* A row: url stands for the record, wellFormed is whether its fields are
\* strings (createNote calls string methods on them and throws otherwise).
Row(i, wellFormed) == [url |-> i, wellFormed |-> wellFormed]

CreateNoteThrows(row) == ~row.wellFormed
\* createNote(row, scrapedContent): a link-only note when the content is
\* empty or null.
CreateNote(row, content) == [src |-> row.url, content |-> content]

\* the test `scrapedContent && !includes(...) && !includes(...)`
IsScrapingSuccessful(content) ==
    /\ content # NoContent
    /\ ~Includes(content, FailedToScrape)
    /\ ~Includes(content, CouldNotExtract)

\* a fallback that does not look at the lightweight result
NeedsBrowser_Always(opts, lightweightText) == opts.fallbackBrowser

\* whether the browser extractor is called after the lightweight one
NeedsBrowser(opts, lightweightText) ==
    ~IsScrapingSuccessful(lightweightText) /\ opts.fallbackBrowser

\* a catch block whose own createNote failure escapes
FallbackNote_Rethrow(row) ==
    IF CreateNoteThrows(row)
    THEN [status |-> "rejected", note |-> JsNull, success |-> FALSE]
    ELSE [status |-> "resolved", note |-> CreateNote(row, NoContent),
          success |-> FALSE]

\* the catch block of processRecord: a link-only note, or no note when
\* that throws too
FallbackNote(row) ==
    [ status  |-> "resolved",
      note    |-> IF CreateNoteThrows(row) THEN JsNull
                  ELSE CreateNote(row, NoContent),
      success |-> FALSE ]

\* createNote inside the try block, with the text handed to it
BuildNote(row, content, success) ==
    IF CreateNoteThrows(row)
    THEN FallbackNote(row)
    ELSE [status |-> "resolved", note |-> CreateNote(row, content),
          success |-> success]

\* the labelling of the text once the extractors are done
LabelledText(content, method) ==
    IF IsScrapingSuccessful(content)
    THEN AddScrapingMethodInfo(content, method)
    ELSE AddScrapingMethodInfo(content, "failed")

\* processRecord from the last extractor's return to its own return
FinishRecord(row, content, method) ==
    BuildNote(row, LabelledText(content, method), IsScrapingSuccessful(content))

\* a processRecord whose success flag starts out false
ProcessRecord_SuccessInitFalse(row, opts, lightweightText, browserText) ==
    IF opts = JsNull THEN FallbackNote(row)
    ELSE IF ~opts.scrape THEN BuildNote(row, NoContent, FALSE)
    ELSE IF NeedsBrowser(opts, lightweightText)
    THEN FinishRecord(row, browserText, "browser")
    ELSE FinishRecord(row, lightweightText, "lightweight")

\* processRecord(row, ...) as a whole, given what the extractors return
ProcessRecord(row, opts, lightweightText, browserText) ==
    IF opts = JsNull THEN FallbackNote(row)
    ELSE IF ~opts.scrape THEN BuildNote(row, NoContent, TRUE)
    ELSE IF NeedsBrowser(opts, lightweightText)
    THEN FinishRecord(row, browserText, "browser")
    ELSE FinishRecord(row, lightweightText, "lightweight")

-----------------------------------------------------------------------------
(* SpecRecord: one processRecord call, from await to await.                *)

RecordOptions ==
    [scrape : BOOLEAN, fallbackBrowser : BOOLEAN] \cup {JsNull}
RecordRows == { Row(i, w) : i \in 0..1, w \in BOOLEAN }

PrInit ==
    /\ pr = PrIdle
    /\ EnvIdle
    /\ RunIdle
    /\ cm = NewCheckpointManager(<<"out", ".enex">>, Unset, 0)
    /\ fs = [p \in AllPaths |-> Absent]
    /\ clock = 0
    /\ call = NoCall
    /\ doc = Absent

\* the call, up to the first await or to the return
PrCall ==
    /\ PrFrame
    /\ pr.pc = "idle"
    /\ \E row \in RecordRows, opts \in RecordOptions :
         IF opts # JsNull /\ opts.scrape
         THEN pr' = [pr EXCEPT !.pc = "scrapeContent", !.row = row,
                               !.opts = opts, !.called = <<"scrapeContent">>]
         ELSE pr' = [pr EXCEPT !.pc = "settled", !.row = row, !.opts = opts,
                               !.result = ProcessRecord(row, opts, NoContent, NoContent)]

\* scrapeContent returns
PrLightweightReturns ==
    /\ PrFrame
    /\ pr.pc = "scrapeContent"
    /\ \E text \in LightweightTexts :
         IF NeedsBrowser(pr.opts, text)
         THEN pr' = [pr EXCEPT !.pc = "scrapeWithPuppeteer",
                               !.lightweight = text,
                               !.scrapedContent = text,
                               !.called = Append(@, "scrapeWithPuppeteer")]
         ELSE pr' = [pr EXCEPT !.pc = "settled",
                               !.lightweight = text,
                               !.scrapedContent = text,
                               !.labelled = LabelledText(text, "lightweight"),
                               !.result = FinishRecord(pr.row, text, "lightweight")]

\* scrapeWithPuppeteer returns
PrBrowserReturns ==
    /\ PrFrame
    /\ pr.pc = "scrapeWithPuppeteer"
    /\ \E text \in BrowserTexts :
         pr' = [pr EXCEPT !.pc = "settled",
                          !.scrapedContent = text,
                          !.labelled = LabelledText(text, "browser"),
                          !.result = FinishRecord(pr.row, text, "browser")]

PrNext ==
    \/ PrCall
    \/ PrLightweightReturns
    \/ PrBrowserReturns

SpecRecord == PrInit /\ [][PrNext]_vars

-----------------------------------------------------------------------------
(* The extractors: scrapeContent and scrapeWithPuppeteer as functions of   *)
(* what the network and the browser answer.                                *)

\* the thresholds of both extractors
MinElementText == 100
ContentFloor == 50
MinLineLength == 20
ParagraphLength == 150

\* A page text is the sequence of the lengths of its sentences, each one
\* followed by the full stop the extractors split on.
MaxSentences == 2
SentenceLengths == {20, 30, 48, 49, 60, 120}
PageTexts ==
    UNION { [1..n -> SentenceLengths] : n \in 0..MaxSentences }

RECURSIVE TextLength(_)
\* the length of the text: every sentence and its full stop
TextLength(sentences) ==
    IF sentences = <<>> THEN 0
    ELSE Head(sentences) + 1 + TextLength(Tail(sentences))

\* `.split(/[。\n]/).map(trim).filter(line => line.length > 20)`
KeptLine(length) == length > MinLineLength
SplitLines(sentences) == SelectSeq(sentences, KeptLine)

RECURSIVE BuildParagraphs(_, _)
\* the forEach over the lines: the lengths of the paragraphs built, a
\* paragraph being closed once it is longer than 150 characters, and what
\* is left in currentParagraph being added at the end
BuildParagraphs(lines, currentParagraph) ==
    IF lines = <<>>
    THEN IF currentParagraph > 0 THEN <<currentParagraph>> ELSE <<>>
    ELSE LET longer == currentParagraph + Head(lines) + 1
         IN  IF longer > ParagraphLength
             THEN <<longer>> \o BuildParagraphs(Tail(lines), 0)
             ELSE BuildParagraphs(Tail(lines), longer)

RECURSIVE SumOf(_)
SumOf(lengths) ==
    IF lengths = <<>> THEN 0 ELSE Head(lengths) + SumOf(Tail(lengths))

\* the number of characters of page text in what the extractor returns
ExtractedLength(sentences) == SumOf(BuildParagraphs(SplitLines(sentences), 0))

RECURSIVE Enml(_, _)
\* enmlContent: one `<p>...</p>\n` per paragraph; a phrase of the page's
\* own text lands in the first one
Enml(paragraphs, phrase) ==
    IF paragraphs = <<>> THEN <<>>
    ELSE (IF phrase THEN PhraseInArticle ELSE Paragraphs)
         \o Enml(Tail(paragraphs), FALSE)

\* the conversion both extractors apply to the text they obtained:
\* `enmlContent || placeholder`
ToEnml(sentences, phrase) ==
    LET paragraphs == BuildParagraphs(SplitLines(sentences), 0)
    IN  IF paragraphs = <<>> THEN Placeholder ELSE Enml(paragraphs, phrase)

\* `<p>Failed to scrape content from ${url}: ${error.message}</p>`
FailedText(lines) == IF lines > 1 THEN FailedManyLines ELSE FailedOneLine

\* What answers scrapeContent: the URL is a binary one (no request is
\* made), the request fails with a message of so many lines or times out,
\* the response is not text, or it is a page whose content element holds
\* the sentences plus nav characters of navigation children.
Answer(kind, lines, nav, sentences, phrase) ==
    [kind |-> kind, lines |-> lines, nav |-> nav, sentences |-> sentences,
     phrase |-> phrase]
HttpAnswers ==
    { Answer(k, 1, 0, <<>>, FALSE) : k \in {"binary", "timeout", "other"} }
    \cup { Answer("error", l, 0, <<>>, FALSE) : l \in 1..2 }
    \cup { Answer("html", 1, n, t, ph) :
             n \in {0, 80}, t \in PageTexts, ph \in BOOLEAN }

\* a scrapeContent that fetches every URL
HttpRequests_Always(answer) == 1

\* the number of axios.get calls of scrapeContent: the reference block of a
\* binary URL is returned before the request is made
HttpRequests(answer) == IF answer.kind = "binary" THEN 0 ELSE 1

\* a catch block that throws the error on
ScrapeCatch_Rethrow(answer) == [raised |-> TRUE, text |-> NoContent]

\* the catch block of both extractors: the error becomes text
ScrapeCatch(answer) == [raised |-> FALSE, text |-> FailedText(answer.lines)]

\* scrapeContent(url)
ScrapeContent(answer) ==
    IF answer.kind \in {"error", "timeout"} THEN ScrapeCatch(answer)
    ELSE [ raised |-> FALSE,
           text |->
             IF answer.kind \in {"binary", "other"} THEN ReferenceBlock
             ELSE IF answer.nav + TextLength(answer.sentences) > MinElementText
             THEN IF TextLength(answer.sentences) < ContentFloor
                  THEN NotExtracted
                  ELSE ToEnml(answer.sentences, answer.phrase)
             ELSE NotExtracted ]

\* What answers scrapeWithPuppeteer: the browser does not start, no page
\* can be opened, the navigation fails or times out, the evaluation
\* fails, or the rendered page yields the sentences.
BrowserAnswers ==
    { Answer(k, l, 0, <<>>, FALSE) :
        k \in {"launch", "newPage", "goto", "evaluate"}, l \in 1..2 }
    \cup { Answer("timeout", 1, 0, <<>>, FALSE) }
    \cup { Answer("content", 1, 0, t, ph) : t \in PageTexts, ph \in BOOLEAN }

\* scrapeWithPuppeteer(url)
ScrapeWithPuppeteer(answer) ==
    IF answer.kind # "content" THEN ScrapeCatch(answer)
    ELSE [ raised |-> FALSE,
           text |->
             IF TextLength(answer.sentences) < ContentFloor THEN NotExtracted
             ELSE ToEnml(answer.sentences, answer.phrase) ]

\* the catch block of processRecord when an extractor raises
ExtractorRaised(row) == FallbackNote(row)

-----------------------------------------------------------------------------
(* SpecExtract: one processRecord call with the extractors answered by the *)
(* network and the browser.                                                *)

ExFrame == UNCHANGED <<cm, fs, clock, call, doc, runVars, browserVars, toolVars>>

ExInit == PrInit

\* scrapeContent returns or raises
ExLightweightReturns ==
    /\ ExFrame
    /\ pr.pc = "scrapeContent"
    /\ \E answer \in HttpAnswers :
         LET r == ScrapeContent(answer)
         IN  /\ web' = [web EXCEPT !.http = answer, !.raised = r.raised,
                                   !.requests = @ + HttpRequests(answer)]
             /\ IF r.raised
                THEN pr' = [pr EXCEPT !.pc = "settled",
                                      !.result = ExtractorRaised(pr.row)]
                ELSE IF NeedsBrowser(pr.opts, r.text)
                THEN pr' = [pr EXCEPT !.pc = "scrapeWithPuppeteer",
                                      !.lightweight = r.text,
                                      !.scrapedContent = r.text,
                                      !.called = Append(@, "scrapeWithPuppeteer")]
                ELSE pr' = [pr EXCEPT !.pc = "settled",
                                      !.lightweight = r.text,
                                      !.scrapedContent = r.text,
                                      !.labelled = LabelledText(r.text, "lightweight"),
                                      !.result = FinishRecord(pr.row, r.text, "lightweight")]

\* scrapeWithPuppeteer returns or raises
ExBrowserReturns ==
    /\ ExFrame
    /\ pr.pc = "scrapeWithPuppeteer"
    /\ \E answer \in BrowserAnswers :
         LET r == ScrapeWithPuppeteer(answer)
         IN  /\ web' = [web EXCEPT !.browser = answer, !.raised = r.raised]
             /\ IF r.raised
                THEN pr' = [pr EXCEPT !.pc = "settled",
                                      !.result = ExtractorRaised(pr.row)]
                ELSE pr' = [pr EXCEPT !.pc = "settled",
                                      !.scrapedContent = r.text,
                                      !.labelled = LabelledText(r.text, "browser"),
                                      !.result = FinishRecord(pr.row, r.text, "browser")]

ExNext ==
    \/ PrCall
    \/ ExLightweightReturns
    \/ ExBrowserReturns

SpecExtract == ExInit /\ [][ExNext]_vars

-----------------------------------------------------------------------------
(* BrowserManager, scrapeWithPuppeteer and the shutdown handlers           *)

\* releasePage(page): the page is closed unless it is closed already; a
\* close that fails is reported and leaves the page as it is
ReleasePage(tabs_, page, closeOk) ==
    [tabs_ EXCEPT ![page] =
        [@ EXCEPT !.lease = "released",
                  !.state = IF @ = "open" /\ closeOk THEN "closed" ELSE @]]

\* a release that is part of the try block only
PageAfterExit_NoFinally(tabs_, page, thrown, closeOk) ==
    IF page = NoHandle \/ thrown THEN tabs_
    ELSE ReleasePage(tabs_, page, closeOk)

\* the finally block of scrapeWithPuppeteer: `if (page) releasePage(page)`
PageAfterExit(tabs_, page, thrown, closeOk) ==
    IF page = NoHandle THEN tabs_ ELSE ReleasePage(tabs_, page, closeOk)

\* the catch block of scrapeWithPuppeteer
ScThrown(scCall) == [scCall EXCEPT !.pc = "done", !.text = FailedOneLine]

\* what the rendered page yields in a run of scrapeWithPuppeteer
RenderedAnswers ==
    { Answer("content", 1, 0, t, FALSE) : t \in { <<>>, <<60>> } }
    \cup { Answer(k, 1, 0, <<>>, FALSE) : k \in {"goto", "evaluate"} }

\* the pages of a browser are gone once they or the browser are closed
CloseTabsOf(tabs_, b) ==
    [t \in DOMAIN tabs_ |->
        IF tabs_[t].of = b /\ tabs_[t].state = "open"
        THEN [tabs_[t] EXCEPT !.state = "closed"]
        ELSE tabs_[t]]

\* How the browser part of cleanup() ends: "closed" by browser.close(),
\* "killed" by SIGKILL after the close failed, "killFails" when that fails
\* too, "typeError" when this.browser is null by the time it is used.
CleanupEnds == {"closed", "killed", "killFails"}
ChromeAfter(chrome_, b, how) ==
    IF b = NoHandle \/ how \notin {"closed", "killed"} THEN chrome_
    ELSE [chrome_ EXCEPT ![b] = IF @ = "running" THEN how ELSE @]
TabsAfter(tabs_, b, how) ==
    IF b = NoHandle \/ how \notin {"closed", "killed"} THEN tabs_
    ELSE CloseTabsOf(tabs_, b)

\* a cleanup() that lets the failure of the kill out
BrowserCleanupRaises_KillError(how) == how = "killFails"

\* whether cleanup() raises: every failure is caught and reported
BrowserCleanupRaises(how) == FALSE

\* a handler that calls process.exit without awaiting the cleanup
HandlerMayExit_NoAwait(cleanupCall) == cleanupCall.pc # "idle"

\* gracefulShutdown and the unhandledRejection handler call process.exit
\* after `await browserManager.cleanup()`
HandlerMayExit(cleanupCall) == cleanupCall.pc = "done"

\* `this.maxPages = 10`
MaxPages == 10

\* `this.restartInterval = 1000`
RestartInterval == 1000

\* shouldRestart()
ShouldRestart(m) ==
    m.processedCount > 0 /\ m.processedCount % RestartInterval = 0

\* getBrowser() as getPage() calls it: the browser at hand is returned, or
\* puppeteer.launch is awaited
GetBrowser(scCall, browser_) ==
    IF browser_ = NoHandle
    THEN [scCall EXCEPT !.pc = "launch"]
    ELSE [scCall EXCEPT !.pc = "newPage", !.browser = browser_]

\* `await this.restart()` is over once its cleanup call has returned: the
\* getPage call that awaited it goes on to getBrowser()
AfterRestart(sc_, cleanupCall, browser_) ==
    IF cleanupCall.by = "restart" /\ cleanupCall.pc = "done"
    THEN [sc_ EXCEPT ![cleanupCall.caller] = GetBrowser(@, browser_)]
    ELSE sc_

\* the caller of process.exit once a step of a cleanup call is taken: the
\* handler that awaited it goes on to process.exit at once
ExitBy(cleanupCall) ==
    IF cleanupCall.by \in {"signal", "rejection"} /\ HandlerMayExit(cleanupCall)
    THEN cleanupCall.by
    ELSE "none"

-----------------------------------------------------------------------------
(* SpecBrowser: the scrapeWithPuppeteer calls of a run, the cleanup calls  *)
(* of its tail and of the handlers, from await to await.  A manager that   *)
(* starts at no lease does not reach the restart of every 1000 leases:     *)
(* SpecLease starts next to it.                                            *)

BrFrame == UNCHANGED <<pr, cm, fs, clock, call, doc, runVars, web, toolVars>>

\* the run the browser works for: one record committed, snapshot written
InFlightRun ==
    UpdateProgress(NewCheckpointManager(<<"out", ".enex">>, 1, 0),
                   [p \in AllPaths |-> Absent], 0, 1, MaxRecords, 0,
                   SampleNote(0), JsNull, "ok")

BrInit ==
    /\ pr = PrIdle
    /\ EnvIdle
    /\ RunIdle
    /\ cm = InFlightRun.cm
    /\ fs = InFlightRun.fs
    /\ clock = InFlightRun.clock
    /\ call = NoCall
    /\ doc = Absent

Running(c) == sc[c].pc \notin {"idle", "done"}

\* scrapeWithPuppeteer(url) is called.  getPage() restarts the browser
\* when shouldRestart() says so: cleanup() empties the pool and, with a
\* browser at hand, asks for its pages.  Otherwise (and when there is
\* nothing to clean up) it finds the pool empty and getBrowser() returns
\* the browser at hand or starts to launch one.
ScCall(c) ==
    /\ BrFrame
    /\ halt = "none"
    /\ sc[c].pc = "idle"
    /\ \A d \in DOMAIN sc : d < c => sc[d].pc # "idle"
    /\ \A k \in Cleanups : cl[k].by # "run"
    /\ IF ShouldRestart(bm) /\ bm.browser # NoHandle
       THEN /\ \E k \in Cleanups :
                 /\ cl[k].pc = "idle"
                 /\ \A j \in Cleanups : j < k => cl[j].pc # "idle"
                 /\ cl' = [cl EXCEPT ![k] =
                             [@ EXCEPT !.pc = "pages", !.by = "restart",
                                       !.browser = bm.browser, !.caller = c]]
            /\ sc' = [sc EXCEPT ![c] =
                        [@ EXCEPT !.pc = "restart", !.restarted = TRUE]]
            /\ bm' = [bm EXCEPT !.pagePool = <<>>]
       ELSE /\ sc' = [sc EXCEPT ![c] =
                        GetBrowser([@ EXCEPT !.restarted = ShouldRestart(bm)],
                                   bm.browser)]
            /\ UNCHANGED <<bm, cl>>
    /\ UNCHANGED <<chrome, tabs, halt>>

\* puppeteer.launch settles: `this.browser = await puppeteer.launch(...)`
ScLaunched(c) ==
    /\ BrFrame
    /\ halt = "none"
    /\ sc[c].pc = "launch"
    /\ \E ok \in BOOLEAN :
         IF ok
         THEN /\ chrome' = [chrome EXCEPT ![c] = "running"]
              /\ bm' = [bm EXCEPT !.browser = c]
              /\ sc' = [sc EXCEPT ![c] = [@ EXCEPT !.pc = "newPage", !.browser = c]]
              /\ UNCHANGED tabs
         ELSE /\ sc' = [sc EXCEPT ![c] = ScThrown(@)]
              /\ tabs' = PageAfterExit(tabs, sc[c].page, TRUE, TRUE)
              /\ UNCHANGED <<bm, chrome>>
    /\ UNCHANGED <<cl, halt>>

\* browser.newPage() and page.setUserAgent settle: getPage() counts the
\* lease and returns the page, which scrapeWithPuppeteer navigates.  When
\* setUserAgent fails the page stays open and is handed to nobody.
ScLeased(c) ==
    /\ BrFrame
    /\ halt = "none"
    /\ sc[c].pc = "newPage"
    /\ \E got \in {"page", "newPageFails", "setUserAgentFails"} :
         /\ got # "newPageFails" => chrome[sc[c].browser] = "running"
         /\ tabs' =
              CASE got = "page" ->
                     [tabs EXCEPT ![c] = [state |-> "open", of |-> sc[c].browser,
                                          lease |-> "leased"]]
                [] got = "setUserAgentFails" ->
                     [tabs EXCEPT ![c] = [state |-> "open", of |-> sc[c].browser,
                                          lease |-> "none"]]
                [] OTHER -> PageAfterExit(tabs, sc[c].page, TRUE, TRUE)
         /\ sc' = [sc EXCEPT ![c] =
                     IF got = "page" THEN [@ EXCEPT !.pc = "goto", !.page = c]
                     ELSE ScThrown(@)]
         /\ bm' = IF got = "page" THEN [bm EXCEPT !.processedCount = @ + 1] ELSE bm
    /\ UNCHANGED <<chrome, cl, halt>>

\* page.goto, the two seconds of waiting and page.evaluate settle: the
\* text is checked and converted, or the error caught; the page is
\* released
ScSettles(c) ==
    /\ BrFrame
    /\ halt = "none"
    /\ sc[c].pc = "goto"
    /\ \E answer \in RenderedAnswers, closeOk \in BOOLEAN :
         /\ answer.kind = "content" => tabs[sc[c].page].state = "open"
         /\ tabs[sc[c].page].state # "open" => closeOk
         /\ sc' = [sc EXCEPT ![c] =
                     [@ EXCEPT !.pc = "done",
                               !.text = ScrapeWithPuppeteer(answer).text]]
         /\ tabs' = PageAfterExit(tabs, sc[c].page, answer.kind # "content", closeOk)
    /\ UNCHANGED <<bm, chrome, cl, halt>>

\* cleanup() is called by the tail of the run (once its records are
\* done), by gracefulShutdown or by the unhandledRejection handler: the
\* pool is emptied and, with a browser at hand, its pages are asked for.
\* A handler whose cleanup call has returned calls process.exit.
ClCall(k) ==
    /\ BrFrame
    /\ halt = "none"
    /\ cl[k].pc = "idle"
    /\ \A j \in Cleanups : j < k => cl[j].pc # "idle"
    /\ \E by \in {"run", "signal", "rejection"} :
         /\ by = "run" =>
              /\ \A c \in DOMAIN sc : ~Running(c)
              /\ \A j \in Cleanups : cl[j].by # "run"
         /\ cl' = [cl EXCEPT ![k] =
                     IF bm.browser = NoHandle
                     THEN [@ EXCEPT !.pc = "done", !.by = by]
                     ELSE [@ EXCEPT !.pc = "pages", !.by = by,
                                    !.browser = bm.browser]]
    /\ bm' = [bm EXCEPT !.pagePool = <<>>]
    /\ halt' = ExitBy(cl'[k])
    /\ UNCHANGED <<chrome, tabs, sc>>

\* browser.pages() settles: the pages are closed and the contexts asked
\* for, or the error is caught, the process killed and the handle dropped
ClPages(k) ==
    /\ BrFrame
    /\ halt = "none"
    /\ cl[k].pc = "pages"
    /\ \E how \in {"pages", "killed", "killFails"} :
         IF how = "pages"
         THEN /\ tabs' = CloseTabsOf(tabs, cl[k].browser)
              /\ cl' = [cl EXCEPT ![k] = [@ EXCEPT !.pc = "close"]]
              /\ UNCHANGED <<bm, chrome, sc>>
         ELSE LET end == IF bm.browser = NoHandle THEN "typeError" ELSE how
              IN  /\ end = "typeError" => how = "killed"
                  /\ chrome' = ChromeAfter(chrome, bm.browser, end)
                  /\ tabs' = TabsAfter(tabs, bm.browser, end)
                  /\ cl' = [cl EXCEPT ![k] =
                              [@ EXCEPT !.pc = "done",
                                        !.raised = BrowserCleanupRaises(end)]]
                  /\ bm' = [bm EXCEPT !.browser = NoHandle]
                  /\ sc' = AfterRestart(sc, cl'[k], NoHandle)
    /\ halt' = ExitBy(cl'[k])

\* the contexts are closed and browser.close() settles, or the error is
\* caught and the process killed; finally the handle is dropped
ClClose(k) ==
    /\ BrFrame
    /\ halt = "none"
    /\ cl[k].pc = "close"
    /\ \E how \in CleanupEnds :
         LET end == IF bm.browser = NoHandle THEN "typeError" ELSE how
         IN  /\ end = "typeError" => how = "closed"
             /\ chrome' = ChromeAfter(chrome, bm.browser, end)
             /\ tabs' = TabsAfter(tabs, bm.browser, end)
             /\ cl' = [cl EXCEPT ![k] =
                         [@ EXCEPT !.pc = "done",
                                   !.raised = BrowserCleanupRaises(end)]]
    /\ bm' = [bm EXCEPT !.browser = NoHandle]
    /\ sc' = AfterRestart(sc, cl'[k], NoHandle)
    /\ halt' = ExitBy(cl'[k])

\* process.exit in the tail of the run, after its cleanup
RunExit(k) ==
    /\ BrFrame
    /\ halt = "none"
    /\ cl[k].by = "run"
    /\ cl[k].pc = "done"
    /\ halt' = "run"
    /\ UNCHANGED <<bm, chrome, tabs, sc, cl>>

BrNext ==
    \/ \E c \in Calls : ScCall(c)
    \/ \E c \in Calls : ScLaunched(c)
    \/ \E c \in Calls : ScLeased(c)
    \/ \E c \in Calls : ScSettles(c)
    \/ \E k \in Cleanups : ClCall(k)
    \/ \E k \in Cleanups : ClPages(k)
    \/ \E k \in Cleanups : ClClose(k)
    \/ \E k \in Cleanups : RunExit(k)

SpecBrowser == BrInit /\ [][BrNext]_vars

-----------------------------------------------------------------------------
(* SpecLease: the scrapeWithPuppeteer calls of one batch made by a manager *)
(* that is new or has leased about RestartInterval pages already, with the *)
(* browser of those leases at hand.                                        *)

MaxLeases == 2
Leases == 1..MaxLeases
\* the browser launched for the leases before the batch
PriorBrowser == MaxLeases + 1
LeaseCounts == {0, RestartInterval - 1, RestartInterval}

LeaseInit ==
    /\ pr = PrIdle
    /\ RunIdle
    /\ cm = InFlightRun.cm
    /\ fs = InFlightRun.fs
    /\ clock = InFlightRun.clock
    /\ call = NoCall
    /\ doc = Absent
    /\ web = NoAnswer
    /\ pace = PaceIdle
    /\ split = SplitIdle
    /\ fb = FbIdle
    /\ gen = GenIdle
    /\ \E count \in LeaseCounts :
         /\ bm = [browser |-> IF count = 0 THEN NoHandle ELSE PriorBrowser,
                  pagePool |-> <<>>, processedCount |-> count]
         /\ chrome = [b \in 1..PriorBrowser |->
                        IF b = PriorBrowser /\ count # 0 THEN "running"
                        ELSE "none"]
    /\ tabs = [t \in Leases |-> NoTab]
    /\ sc = [c \in Leases |-> ScIdle]
    /\ cl = [k \in Cleanups |-> ClIdle]
    /\ halt = "none"

LeaseNext ==
    \/ \E c \in Leases : ScCall(c)
    \/ \E c \in Leases : ScLaunched(c)
    \/ \E c \in Leases : ScLeased(c)
    \/ \E c \in Leases : ScSettles(c)
    \/ \E k \in Cleanups : ClPages(k)
    \/ \E k \in Cleanups : ClClose(k)

SpecLease == LeaseInit /\ [][LeaseNext]_vars

-----------------------------------------------------------------------------
(* convertCsvToEnex                                                        *)

DefaultBatchSize == 10

BatchSizeOf(o) == ParseIntOr(o.batchSize, DefaultBatchSize)

\* a batch end that is not clipped to the number of rows
Min_Left(a, b) == a

Min(a, b) == IF a < b THEN a ELSE b
Max(a, b) == IF a > b THEN a ELSE b

\* a pacing delay that does not look at the batch size
DelayMs_Fixed(batchSize) == 1000

\* `Math.max(1000, batchSize * 100)`: the pacing delay in milliseconds
DelayMs(batchSize) == Max(1000, batchSize * 100)

\* `batchStart + batchSize < rows.length`: whether the loop waits after
\* the batch
PacingDue(start, batchSize, len) == start + batchSize < len

\* rows.length once the rows already processed are skipped
RowsLength == IF startIndex > 0 THEN Max(total - startIndex, 0) ELSE total

\* the rows csv-parser yields have string fields
CsvRow(i) == Row(i, TRUE)

\* What the extractors return in a run: the lightweight extractor succeeds
\* or fails, the browser succeeds on the pages it is called for (the other
\* texts, and the failure of both extractors, are cases of SpecRecord).
RunLightweightTexts == { Paragraphs, FailedOneLine }
RunBrowserTexts == { Paragraphs }

\* the values processRecord can resolve to for a row
RecordResults(row, o) ==
    { ProcessRecord(row, o, lw, br) :
        lw \in RunLightweightTexts, br \in RunBrowserTexts }

\* a - b of the comparator is negative: a sorts before b
ComesFirst_Descending(a, b) == b.originalIndex - a.originalIndex < 0

ComesFirst(a, b) == a.originalIndex - b.originalIndex < 0

\* batchResults.sort((a, b) => a.originalIndex - b.originalIndex)
RECURSIVE SortByOriginalIndex(_)
SortByOriginalIndex(batchResults) ==
    IF batchResults = <<>> THEN <<>>
    ELSE LET k == CHOOSE i \in 1..Len(batchResults) :
                    \A j \in 1..Len(batchResults) :
                        j # i => ComesFirst(batchResults[i], batchResults[j])
             rest == [j \in 1..(Len(batchResults) - 1) |->
                        IF j < k THEN batchResults[j] ELSE batchResults[j + 1]]
         IN  <<batchResults[k]>> \o SortByOriginalIndex(rest)

\* a wait that is over with the first record of the batch
AllSettled_First(batch) == batch[1] # NoResult

\* `await Promise.all(batchPromises)` is over: every call has settled
AllSettled(batch) == \A i \in 1..Len(batch) : batch[i] # NoResult

\* the array Promise.all resolves to: the results by position in the batch
PromiseAll(results_, first) ==
    [i \in 1..Len(results_) |->
        [originalIndex |-> first + i - 1, result |-> results_[i]]]

\* a processed count that lags one record behind
CountAfter_Lagging(originalIndex) == originalIndex

\* `originalIndex + 1`: the processed count once the record is committed
CountAfter(originalIndex) == originalIndex + 1

\* The loop over the sorted batch results: the note is collected when there
\* is one and the progress is updated, record by record.
\* st = [cm, fs, clock, results]
RECURSIVE CommitBatch(_, _, _)
CommitBatch(st, batchResults, wr) ==
    IF batchResults = <<>> THEN st
    ELSE LET item == Head(batchResults)
             note == item.result.note
             u == UpdateProgress(st.cm, st.fs, st.clock,
                      CountAfter(item.originalIndex), st.cm.progress.totalCount,
                      item.originalIndex, note,
                      IF item.result.success THEN JsNull
                      ELSE FailedId(item.originalIndex), wr)
         IN  CommitBatch(
                 [ cm |-> u.cm, fs |-> u.fs, clock |-> u.clock,
                   results |-> IF note # JsNull
                               THEN Append(st.results, note) ELSE st.results ],
                 Tail(batchResults), wr)

\* the note list of the final document
AllNotes(o, m, results_) ==
    IF o.resume /\ Len(m.progress.processedNotes) > 0
    THEN m.progress.processedNotes \o results_
    ELSE results_

\* the catch block around document generation: a last snapshot is saved
FailureTail_Cleanup(m, files, now, wr) ==
    [cm |-> m, fs |-> Cleanup(m, files, TRUE)]

FailureTail(m, files, now, wr) == SaveCheckpoint(m, files, now, wr)

-----------------------------------------------------------------------------
(* Spec: runs of convertCsvToEnex on one input file.                       *)

RunOptions ==
    [ scrape : BOOLEAN, fallbackBrowser : BOOLEAN, resume : BOOLEAN,
      batchSize : {0, 1, MaxBatch}, interval : {1, MaxInterval},
      output : { <<"out", ".enex">> } ]

Init ==
    /\ pr = PrIdle
    /\ EnvIdle
    /\ call = NoCall
    /\ options \in { o \in RunOptions : o.fallbackBrowser => o.scrape }
    /\ total \in 0..MaxRecords
    /\ cm = NewCheckpointManager(options.output, options.interval, 0)
    /\ fs = [p \in AllPaths |-> Absent]
    /\ clock = 0
    /\ doc = Absent
    /\ pc = "off"
    /\ exit = "none"
    /\ previous = "none"
    /\ restored = FALSE
    /\ startIndex = 0
    /\ batchStart = 0
    /\ settled = <<>>
    /\ outOfOrder = FALSE
    /\ results = <<>>
    /\ invoked = <<>>
    /\ tail = "none"
    /\ allNotes = <<>>
    /\ shutdown = FALSE

\* The process starts: the manager is built, the snapshot restored when
\* --resume is given and the file exists, the rows are read and sliced.
\* The first process runs with the options of Init; a re-run may change
\* --resume.
Start ==
    /\ RunFrame
    /\ pc = "off"
    /\ exit = "none" \/ previous = "none"
    /\ \E resume \in BOOLEAN :
         LET o == [options EXCEPT !.resume = IF exit = "none" THEN @ ELSE resume]
             fresh == NewCheckpointManager(o.output, o.interval, clock)
             tryLoad == o.resume /\ HasCheckpoint(fresh, fs)
             l == LoadCheckpoint(fresh, fs)
             got == tryLoad /\ l.ret # JsNull
             first == IF got THEN l.ret.lastProcessedIndex + 1 ELSE 0
             len == IF first > 0 THEN Max(total - first, 0) ELSE total
             m == IF tryLoad THEN l.cm ELSE fresh
         IN  /\ options' = o
             /\ restored' = got
             /\ startIndex' = first
             /\ cm' = [m EXCEPT !.progress.totalCount = first + len,
                                !.progress.processedCount = first]
    /\ previous' = exit
    /\ pc' = "loop"
    /\ exit' = "none"
    /\ batchStart' = 0
    /\ settled' = <<>>
    /\ outOfOrder' = FALSE
    /\ results' = <<>>
    /\ invoked' = <<>>
    /\ tail' = "none"
    /\ allNotes' = <<>>
    /\ shutdown' = FALSE
    /\ UNCHANGED <<fs, clock, doc, total>>

\* The loop test succeeds: the batch is sliced and processRecord is called
\* for each of its rows.
StartBatch ==
    /\ RunFrame
    /\ pc = "loop"
    /\ batchStart < RowsLength
    /\ LET batchEnd == Min(batchStart + BatchSizeOf(options), RowsLength)
           size == batchEnd - batchStart
       IN  /\ settled' = [i \in 1..size |-> NoResult]
           /\ invoked' = invoked \o
                 [i \in 1..size |-> startIndex + batchStart + i - 1]
    /\ outOfOrder' = FALSE
    /\ pc' = "batch"
    /\ UNCHANGED <<cm, fs, clock, doc, options, total, shutdown, exit, previous, restored,
                   startIndex, batchStart, results, tail, allNotes>>

\* One processRecord call of the batch settles.
RecordSettles ==
    /\ RunFrame
    /\ pc = "batch"
    /\ \E i \in 1..Len(settled) :
         /\ settled[i] = NoResult
         /\ \E r \in RecordResults(CsvRow(startIndex + batchStart + i - 1), options) :
              settled' = [settled EXCEPT ![i] = r]
         /\ outOfOrder' =
              (outOfOrder \/ \E j \in 1..(i - 1) : settled[j] = NoResult)
    /\ UNCHANGED <<cm, fs, clock, doc, options, total, shutdown, pc, exit, previous, restored,
                   startIndex, batchStart, results, invoked, tail, allNotes>>

\* Promise.all resolves: the results are sorted and committed in order,
\* then the loop waits for the pacing delay when another batch follows.
BatchSettled ==
    /\ RunFrame
    /\ pc = "batch"
    /\ AllSettled(settled)
    /\ \E wr \in WriteOutcomes :
         LET batchResults ==
                 SortByOriginalIndex(PromiseAll(settled, startIndex + batchStart))
             st == CommitBatch(
                       [cm |-> cm, fs |-> fs, clock |-> clock, results |-> results],
                       batchResults, wr)
         IN  /\ cm' = st.cm
             /\ fs' = st.fs
             /\ clock' = st.clock
             /\ results' = st.results
    /\ IF PacingDue(batchStart, BatchSizeOf(options), RowsLength)
       THEN pc' = "delay" /\ batchStart' = batchStart
       ELSE pc' = "loop" /\ batchStart' = batchStart + BatchSizeOf(options)
    /\ UNCHANGED <<doc, options, total, shutdown, exit, previous, restored, startIndex,
                   settled, outOfOrder, invoked, tail, allNotes>>

\* the pacing delay is over
DelayOver ==
    /\ RunFrame
    /\ pc = "delay"
    /\ pc' = "loop"
    /\ batchStart' = batchStart + BatchSizeOf(options)
    /\ UNCHANGED <<cm, fs, clock, doc, options, total, shutdown, exit, previous, restored,
                   startIndex, settled, outOfOrder, results, invoked, tail,
                   allNotes>>

\* The loop is over and the document is generated and written: the
\* snapshot is cleaned up.
GenerateOk ==
    /\ RunFrame
    /\ pc = "loop"
    /\ ~(batchStart < RowsLength)
    /\ LET notes == AllNotes(options, cm, results)
           written == WriteFile(fs, options.output, EnexDocument(notes), "ok")
       IN  /\ allNotes' = notes
           /\ doc' = EnexDocument(notes)
           /\ \E unlinkOk \in BOOLEAN : fs' = Cleanup(cm, written, unlinkOk)
    /\ tail' = "ok"
    /\ pc' = "exitwait"
    /\ UNCHANGED <<cm, clock, options, total, shutdown, exit, previous, restored, startIndex,
                   batchStart, settled, outOfOrder, results, invoked>>

\* The loop is over and generating or writing the document throws: a last
\* snapshot is saved.
GenerateFails ==
    /\ RunFrame
    /\ pc = "loop"
    /\ ~(batchStart < RowsLength)
    /\ allNotes' = AllNotes(options, cm, results)
    /\ \E thrownBy \in {"builder"} \cup { w \in WriteOutcomes : WriteThrows(w) },
          wr \in WriteOutcomes :
         LET notes == AllNotes(options, cm, results)
             attempted == IF thrownBy = "builder" THEN fs
                          ELSE WriteFile(fs, options.output,
                                         EnexDocument(notes), thrownBy)
             s == FailureTail(cm, attempted, Tick(clock), wr)
         IN  /\ cm' = s.cm
             /\ fs' = s.fs
    /\ clock' = Tick(clock)
    /\ tail' = "failed"
    /\ pc' = "failwait"
    /\ UNCHANGED <<doc, options, total, shutdown, exit, previous, restored, startIndex,
                   batchStart, settled, outOfOrder, results, invoked>>

\* process.exit(0) at the end of the success tail
ExitOk ==
    /\ RunFrame
    /\ pc = "exitwait"
    /\ pc' = "off"
    /\ exit' = "ok"
    /\ shutdown' = FALSE
    /\ UNCHANGED <<cm, fs, clock, doc, options, total, previous, restored, startIndex,
                   batchStart, settled, outOfOrder, results, invoked, tail,
                   allNotes>>

\* process.exit(1) at the end of the failure tail
ExitFailed ==
    /\ RunFrame
    /\ pc = "failwait"
    /\ pc' = "off"
    /\ exit' = "failed"
    /\ shutdown' = FALSE
    /\ UNCHANGED <<cm, fs, clock, doc, options, total, previous, restored, startIndex,
                   batchStart, settled, outOfOrder, results, invoked, tail,
                   allNotes>>

\* SIGINT or SIGTERM is delivered while the process awaits:
\* gracefulShutdown starts and awaits the browser cleanup.
GracefulShutdown ==
    /\ RunFrame
    /\ pc \in {"batch", "delay", "exitwait", "failwait"}
    /\ ~shutdown
    /\ shutdown' = TRUE
    /\ UNCHANGED <<cm, fs, clock, doc, options, total, pc, exit, previous,
                   restored, startIndex, batchStart, settled, outOfOrder,
                   results, invoked, tail, allNotes>>

\* the browser cleanup of gracefulShutdown is over: process.exit(0)
ShutdownExit ==
    /\ RunFrame
    /\ pc \in {"batch", "delay", "exitwait", "failwait"}
    /\ shutdown
    /\ shutdown' = FALSE
    /\ pc' = "off"
    /\ exit' = "signal"
    /\ UNCHANGED <<cm, fs, clock, doc, options, total, previous, restored,
                   startIndex, batchStart, settled, outOfOrder, results,
                   invoked, tail, allNotes>>

\* the steps the event loop takes by itself
Steps ==
    \/ StartBatch
    \/ RecordSettles
    \/ BatchSettled
    \/ DelayOver
    \/ GenerateOk
    \/ GenerateFails
    \/ ExitOk
    \/ ExitFailed

Next ==
    \/ Start
    \/ Steps
    \/ GracefulShutdown
    \/ ShutdownExit

Spec == Init /\ [][Next]_vars

\* Runs without scraping on up to seven records in batches of three.
InitSeven ==
    /\ pr = PrIdle
    /\ EnvIdle
    /\ call = NoCall
    /\ options \in { o \in [ scrape : {FALSE}, fallbackBrowser : {FALSE},
                              resume : {FALSE}, batchSize : {3},
                              interval : {1, MaxInterval},
                              output : { <<"out", ".enex">> } ] : TRUE }
    /\ total \in 0..7
    /\ cm = NewCheckpointManager(options.output, options.interval, 0)
    /\ fs = [p \in AllPaths |-> Absent]
    /\ clock = 0
    /\ doc = Absent
    /\ pc = "off"
    /\ exit = "none"
    /\ previous = "none"
    /\ restored = FALSE
    /\ startIndex = 0
    /\ batchStart = 0
    /\ settled = <<>>
    /\ outOfOrder = FALSE
    /\ results = <<>>
    /\ invoked = <<>>
    /\ tail = "none"
    /\ allNotes = <<>>
    /\ shutdown = FALSE

SpecSeven == InitSeven /\ [][Next]_vars

\* the positions of a process
Positions == {"off", "loop", "batch", "delay", "exitwait", "failwait"}

\* a process that has not exited leaves the point where it stands
Proceeds == pc # "off" /\ pc' \in Positions \ {pc}

\* The event loop runs whatever is ready: the timers fire and the
\* extractors return within their timeouts, so the promise a process awaits
\* settles (or a signal ends the process).
FairSpec == Spec /\ WF_pc(Proceeds)

-----------------------------------------------------------------------------
(* SpecPacing: the batch loop of convertCsvToEnex with the work of a batch *)
(* left out: the loop test, the pacing delay, the increment.               *)

MaxBatches == 2
PacingSizes == {1, 2, 10, 11, 20, 21, 50}
\* the numbers of rows that fill up to MaxBatches batches, or one row more
RowCounts(size) ==
    {0} \cup { k * size + more : k \in 1..MaxBatches, more \in 0..1 }

PaceFrame ==
    UNCHANGED <<pr, cm, fs, clock, call, doc, runVars, web, browserVars, split, fb, gen>>

PaceInit == PrInit

\* the process starts with --batch-size and the rows of the input
PaceStart ==
    /\ PaceFrame
    /\ pace.pc = "off"
    /\ \E size \in PacingSizes :
         \E rows \in RowCounts(size) :
           pace' = [pc |-> "loop", batchSize |-> size, rows |-> rows,
                    batchStart |-> 0, delayMs |-> 0]

\* the loop test succeeds, the batch is processed and committed; the timer
\* of the pacing delay is set when the test of the delay succeeds
PaceBatch ==
    /\ PaceFrame
    /\ pace.pc = "loop"
    /\ pace.batchStart < pace.rows
    /\ pace' = IF PacingDue(pace.batchStart, pace.batchSize, pace.rows)
               THEN [pace EXCEPT !.pc = "delay",
                                 !.delayMs = DelayMs(pace.batchSize)]
               ELSE [pace EXCEPT !.batchStart = @ + pace.batchSize]

\* the timer fires: `batchStart += batchSize`
PaceDelayOver ==
    /\ PaceFrame
    /\ pace.pc = "delay"
    /\ pace' = [pace EXCEPT !.pc = "loop", !.delayMs = 0,
                            !.batchStart = @ + pace.batchSize]

\* the loop test fails
PaceEnd ==
    /\ PaceFrame
    /\ pace.pc = "loop"
    /\ ~(pace.batchStart < pace.rows)
    /\ pace' = [pace EXCEPT !.pc = "done"]

PaceNext ==
    \/ PaceStart
    \/ PaceBatch
    \/ PaceDelayOver
    \/ PaceEnd

SpecPacing == PaceInit /\ [][PaceNext]_vars

-----------------------------------------------------------------------------
(* split-enex.js.  The text of --notes-per-file is the sequence of its     *)
(* characters; a note is known by its position in the input file.          *)

MaxOptionLen == 3
MaxNotes == 4

DigitChars == <<"0", "1", "2">>
OptionChars == {"-", "0", "1", "2", "a", "."}
OptionTexts == UNION { [1..len -> OptionChars] : len \in 1..MaxOptionLen }

IsDigit(ch) == \E d \in 1..Len(DigitChars) : DigitChars[d] = ch
DigitValue(ch) == (CHOOSE d \in 1..Len(DigitChars) : DigitChars[d] = ch) - 1

\* the digits a text starts with
RECURSIVE LeadingDigits(_)
LeadingDigits(text) ==
    IF text = <<>> \/ ~IsDigit(Head(text)) THEN <<>>
    ELSE <<Head(text)>> \o LeadingDigits(Tail(text))

RECURSIVE DecimalValue(_)
DecimalValue(digits) ==
    IF digits = <<>> THEN 0
    ELSE 10 * DecimalValue(SubSeq(digits, 1, Len(digits) - 1))
         + DigitValue(digits[Len(digits)])

\* parseInt(text): a sign, then the digits up to the first other character;
\* NaN when no digit is read
ParseInt(text) ==
    LET negative == text # <<>> /\ Head(text) = "-"
        digits == LeadingDigits(IF negative THEN Tail(text) ELSE text)
    IN  [nan |-> digits = <<>>,
         value |-> IF negative THEN 0 - DecimalValue(digits)
                   ELSE DecimalValue(digits)]

\* `isNaN(notesPerFile) || notesPerFile <= 0`
BadNotesPerFile(n) == n.nan \/ n.value <= 0

\* `Math.ceil(totalNotes / notesPerFile)`
TotalFiles(totalNotes, notesPerFile) ==
    (totalNotes + notesPerFile - 1) \div notesPerFile

\* `notes.slice(startIndex, endIndex)` of the file at fileIndex
NotesChunk(notes, notesPerFile, fileIndex) ==
    LET chunkStart == fileIndex * notesPerFile
        chunkEnd == Min(chunkStart + notesPerFile, Len(notes))
    IN  SubSeq(notes, chunkStart + 1, chunkEnd)

-----------------------------------------------------------------------------
(* SpecSplit: one split-enex process, file by file.  A file of the output  *)
(* directory is known by its part number.                                  *)

SplitFrame ==
    UNCHANGED <<pr, cm, fs, clock, call, doc, runVars, web, browserVars, pace, fb, gen>>

SplitInit == PrInit

\* splitEnexFile up to its loop: the notes are read, the option is parsed
SplitStart ==
    /\ SplitFrame
    /\ split.pc = "off"
    /\ \E option \in OptionTexts, totalNotes \in 0..MaxNotes :
         LET notesPerFile == ParseInt(option)
             read == [SplitIdle EXCEPT !.option = option,
                                       !.notes = [i \in 1..totalNotes |-> i]]
         IN  split' =
               IF totalNotes = 0 \/ BadNotesPerFile(notesPerFile)
               THEN [read EXCEPT !.pc = "done", !.exit = "1"]
               ELSE [read EXCEPT !.pc = "write",
                                 !.notesPerFile = notesPerFile.value]

\* one turn of the loop: writeFileSync writes the part or throws
SplitWrite ==
    /\ SplitFrame
    /\ split.pc = "write"
    /\ split.fileIndex < TotalFiles(Len(split.notes), split.notesPerFile)
    /\ \E written \in BOOLEAN :
         split' =
           IF written
           THEN [split EXCEPT
                   !.files = Append(@, NotesChunk(split.notes,
                                split.notesPerFile, split.fileIndex)),
                   !.fileIndex = @ + 1]
           ELSE [split EXCEPT !.pc = "done", !.exit = "1"]

\* the loop ends and the process with it
SplitEnd ==
    /\ SplitFrame
    /\ split.pc = "write"
    /\ ~(split.fileIndex < TotalFiles(Len(split.notes), split.notesPerFile))
    /\ split' = [split EXCEPT !.pc = "done", !.exit = "0"]

SplitNext ==
    \/ SplitStart
    \/ SplitWrite
    \/ SplitEnd

SpecSplit == SplitInit /\ [][SplitNext]_vars

-----------------------------------------------------------------------------
(* Claims about CheckpointManager, checked under SpecCheckpoint.           *)

\* C4: updateProgress(count, ...) calls saveCheckpoint and
\* saveIntermediateEnex if and only if count is an exact multiple of the
\* interval; with interval 2 and the counts 1..5 committed in sequence the
\* save is triggered after 2 and after 4 and not after 1, 3 or 5.
C4_SaveCadence ==
    call.op = "updateProgress" =>
        /\ call.saved <=> (call.count % cm.interval = 0)
        /\ call.flushed <=> (call.count % cm.interval = 0)
        /\ (cm.interval = 2 /\ call.count <= 5) =>
               (call.saved <=> call.count \in {2, 4})

\* counts 1..5 were committed in sequence with interval 2: the call for 5
\* saved nothing and the file still holds the snapshot taken at 4
C4_Witness ==
    /\ call.op = "updateProgress"
    /\ cm.interval = 2
    /\ call.count = 5
    /\ ~call.saved
    /\ fs[cm.checkpointPath].kind = "json"
    /\ fs[cm.checkpointPath].value.processedCount = 4

\* C9: for every output path the checkpoint path differs from the output
\* path, so that saving or deleting the snapshot never overwrites or deletes
\* the final output document.
C9_CheckpointPathDistinct ==
    /\ cm.checkpointPath # cm.outputPath
    /\ doc # Absent => fs[cm.outputPath] = doc

Committed(p) ==
    <<p.processedCount, p.totalCount, p.lastProcessedIndex, p.processedNotes,
      p.failedUrls>>

\* C11: a saveCheckpoint whose write fails and a cleanup whose unlink
\* fails return normally, and the counts, lastProcessedIndex, processedNotes
\* and failedUrls of the progress are what they were before the call.
C11_FailuresSwallowed ==
    [][ (call'.nth = call.nth + 1 /\ call'.failed
            /\ call'.op \in {"saveCheckpoint", "cleanup"}) =>
            /\ ~call'.raised
            /\ Committed(cm'.progress) = Committed(cm.progress) ]_vars

\* a saveCheckpoint whose write failed, on a manager that has counted records
C11_Witness ==
    /\ call.op = "saveCheckpoint"
    /\ call.failed
    /\ ~call.raised
    /\ cm.progress.processedCount > 0
    /\ fs[cm.checkpointPath] = Absent

\* C20: an updateProgress step sets processedCount, totalCount and
\* lastProcessedIndex to its arguments, appends the note only when one is
\* given and the failed id only when one is given, and leaves startTime and
\* the earlier entries of both lists as they were.
C20_UpdateProgressFrame ==
    [][ (call'.op = "updateProgress"
            /\ call'.count = cm.progress.processedCount + 1) =>
            LET n == call'.count
                p == cm.progress
                q == cm'.progress
            IN  /\ q.processedCount = n
                /\ q.totalCount = MaxCount
                /\ q.lastProcessedIndex = n - 1
                /\ q.processedNotes =
                      IF ArgNote(n - 1) = JsNull THEN p.processedNotes
                      ELSE Append(p.processedNotes, ArgNote(n - 1))
                /\ q.failedUrls =
                      IF ArgFailed(n - 1) = JsNull THEN p.failedUrls
                      ELSE Append(p.failedUrls, ArgFailed(n - 1))
                /\ q.startTime = p.startTime ]_vars

\* the call for the third record (no note, a failed id) has been made
\* after two records with notes
C20_Witness ==
    /\ call.op = "updateProgress"
    /\ call.count = 3
    /\ Len(cm.progress.processedNotes) = 2
    /\ Len(cm.progress.failedUrls) = 2

-----------------------------------------------------------------------------
(* Claims about processRecord, checked under SpecRecord.                   *)

\* C5: when scraping is on, the text of a settled record carries exactly
\* one of the three method markers, and it carries the "Failed" marker
\* exactly when the record's success flag is false.
C5_MarkerExclusive ==
    (pr.pc = "settled" /\ pr.opts # JsNull /\ pr.opts.scrape) =>
        /\ MarkerCount(pr.labelled) = 1
        /\ Includes(pr.labelled, MarkerFailed) <=> ~pr.result.success

\* C7: every call of processRecord resolves, whatever the extractors and
\* createNote do: the result is a {note, success} value, never a rejection.
C7_NeverRaises ==
    pr.pc = "settled" =>
        /\ pr.result.status = "resolved"
        /\ pr.result.success \in BOOLEAN
        /\ pr.result.note = JsNull \/ pr.result.note.src = pr.row.url

\* a call settled after both extractors failed and createNote threw
C7_Witness ==
    /\ pr.pc = "settled"
    /\ pr.called = <<"scrapeContent", "scrapeWithPuppeteer">>
    /\ ~IsScrapingSuccessful(pr.scrapedContent)
    /\ CreateNoteThrows(pr.row)
    /\ pr.result = [status |-> "resolved", note |-> JsNull, success |-> FALSE]

\* the text holds one of the two phrases processRecord looks for
HasFailureMarker(text) ==
    Includes(text, FailedToScrape) \/ Includes(text, CouldNotExtract)

ExtractorOrder ==
    /\ pr.called # <<>> /\ pr.called[1] = "scrapeContent"
    /\ (pr.pc = "settled" \/ Len(pr.called) = 2) =>
         ((pr.called = <<"scrapeContent", "scrapeWithPuppeteer">>)
            <=> (HasFailureMarker(pr.lightweight) /\ pr.opts.fallbackBrowser))

-----------------------------------------------------------------------------
(* Claims about convertCsvToEnex, checked under Spec and FairSpec.         *)

\* the records of the notes of a list, in list order
Sources(notes) == [j \in 1..Len(notes) |-> notes[j].src]

\* the number of notes of a list that belong to record i
NotesOf(notes, i) == Cardinality({ j \in 1..Len(notes) : notes[j].src = i })

\* C1: in a fresh run (no --resume) with a batch size of at least one, the
\* notes handed to document generation are in the order of their records,
\* whatever the order in which the records of a batch settled.
C1_OrderPreserved ==
    (tail # "none" /\ ~options.resume /\ BatchSizeOf(options) >= 1) =>
        \A i, j \in 1..Len(allNotes) :
            i < j => allNotes[i].src < allNotes[j].src

\* a fresh run whose last batch settled out of order reached generation
C1_Witness ==
    /\ tail # "none"
    /\ ~options.resume
    /\ outOfOrder
    /\ Sources(allNotes) = <<0, 1>>

\* C2: for every record the run attempts, exactly one note of that record
\* is in the note list handed to document generation.
C2_ExactlyOneNote ==
    tail # "none" =>
        \A k \in 1..Len(invoked) : NotesOf(allNotes, invoked[k]) = 1

\* C3: a run resumed from a snapshot taken at index K of an interrupted run
\* calls processRecord only for records after K, and its final note list is
\* the list of an uninterrupted run: one note per record, in record order.
C3_ResumeIdempotent ==
    (previous \in {"signal", "failed"} /\ restored /\ tail # "none") =>
        /\ \A k \in 1..Len(invoked) : invoked[k] >= startIndex
        /\ Sources(allNotes) = [j \in 1..total |-> j - 1]

\* C6: the batch loop ends after finitely many batches (unless a signal
\* ends the process first), and when it has ended the progress of every
\* attempted record is committed and each has a note.
C6_LoopTerminates ==
    /\ (pc = "loop") ~> (tail # "none" \/ exit = "signal")
    /\ [](tail # "none" =>
            /\ invoked # <<>> => cm.progress.processedCount = total
            /\ \A k \in 1..Len(invoked) : NotesOf(results, invoked[k]) >= 1)

C14_Partition ==
    /\ [][ (pc = "loop" /\ pc' = "batch") =>
              /\ batchStart % BatchSizeOf(options) = 0
              /\ Len(settled') =
                    IF RowsLength - batchStart < BatchSizeOf(options)
                    THEN RowsLength - batchStart ELSE BatchSizeOf(options)
              /\ (total = 7 /\ startIndex = 0) =>
                    /\ batchStart \in {0, 3, 6}
                    /\ Len(settled') = IF batchStart = 6 THEN 1 ELSE 3 ]_vars
    /\ []((tail # "none" /\ ~options.resume) =>
              /\ Sources(allNotes) = [j \in 1..total |-> j - 1]
              /\ cm.progress.processedCount = total
              /\ cm.progress.failedUrls = <<>>)

\* a fresh run on 7 records has written its document
C14_Witness ==
    /\ tail = "ok"
    /\ ~options.resume
    /\ total = 7
    /\ Len(allNotes) = 7
    /\ cm.progress.processedCount = 7
    /\ batchStart = 9

\* C15: when the page text scrapeContent is left with after segmentation is
\* below the 50-character floor, scrapeContent returns failure-marked text,
\* and processRecord without fallback returns success = false with a note.
C15_BelowFloor ==
    ( /\ pr.opts # JsNull
      /\ pr.opts.scrape
      /\ ~CreateNoteThrows(pr.row)
      /\ web.http # JsNull
      /\ web.http.kind = "html"
      /\ ExtractedLength(web.http.sentences) < ContentFloor ) =>
        /\ HasFailureMarker(pr.lightweight)
        /\ (pr.pc = "settled" /\ ~pr.opts.fallbackBrowser) =>
              (~pr.result.success /\ pr.result.note # JsNull)

\* C19: an extraction failure never propagates as an exception: on a
\* network error or timeout scrapeContent, and on a launch, page,
\* navigation or evaluation failure scrapeWithPuppeteer, returns text
\* holding the failure phrase, and the record whose last extractor failed
\* is returned (not thrown) with success = false.
C19_NoPropagation ==
    /\ ~web.raised
    /\ (web.http # JsNull /\ web.http.kind \in {"error", "timeout"}) =>
          Includes(pr.lightweight, FailedToScrape)
    /\ (web.browser # JsNull /\ web.browser.kind # "content") =>
          Includes(pr.scrapedContent, FailedToScrape)
    /\ ( /\ pr.pc = "settled"
         /\ web.http # JsNull
         /\ IF web.browser # JsNull THEN web.browser.kind # "content"
            ELSE web.http.kind \in {"error", "timeout"} ) =>
          (pr.result.status = "resolved" /\ ~pr.result.success)

\* the request timed out, the browser did not start, the record is returned
C19_Witness ==
    /\ pr.pc = "settled"
    /\ web.http # JsNull
    /\ web.http.kind = "timeout"
    /\ web.browser # JsNull
    /\ web.browser.kind = "launch"
    /\ pr.result.status = "resolved"
    /\ ~pr.result.success
    /\ pr.result.note # JsNull

\* C16: a page leased by scrapeWithPuppeteer is held by a call still under
\* way; every call that has ended, by a result or by a caught exception,
\* has released the page it leased, so that no leased page is left once
\* the calls have ended.
C16_PagesReleased ==
    /\ \A t \in Calls : tabs[t].lease = "leased" => (sc[t].pc = "goto" /\ sc[t].page = t)
    /\ \A c \in Calls : (sc[c].pc = "done" /\ sc[c].page # NoHandle) =>
                           tabs[sc[c].page].lease = "released"

\* every call has ended, one of them by an exception after its lease
C16_Witness ==
    /\ \A c \in Calls : sc[c].pc = "done"
    /\ \E c \in Calls : /\ sc[c].page # NoHandle
                         /\ sc[c].text = FailedOneLine
                         /\ tabs[sc[c].page].lease = "released"

\* C17: a cleanup call that returns has not raised and leaves no browser
\* handle and an empty pool, whether the browser was closed or had to be
\* killed; a call made when there is no browser and the pool is empty
\* returns at once and changes nothing.
C17_CleanupIdempotent ==
    [][ \A k \in Cleanups :
          (cl[k].pc # "done" /\ cl'[k].pc = "done") =>
             /\ ~cl'[k].raised
             /\ bm'.browser = NoHandle
             /\ bm'.pagePool = <<>>
             /\ (bm.browser = NoHandle /\ bm.pagePool = <<>> /\ cl[k].pc = "idle") =>
                   (bm' = bm /\ chrome' = chrome /\ tabs' = tabs) ]_vars

\* the first call had to kill the browser, the second found nothing to do
C17_Witness ==
    /\ cl[1].pc = "done"
    /\ cl[1].browser # NoHandle
    /\ chrome[cl[1].browser] = "killed"
    /\ cl[2].pc = "done"
    /\ cl[2].browser = NoHandle
    /\ bm.browser = NoHandle

\* C18: when a signal handler or the unhandledRejection handler ends the
\* process, the cleanup call it made has returned and no browser handle is
\* left; the step changes neither the snapshot file nor the progress of
\* the run.
C18_ShutdownAfterCleanup ==
    [][ (halt = "none" /\ halt' \in {"signal", "rejection"}) =>
           /\ \E k \in Cleanups : cl'[k].by = halt' /\ cl'[k].pc = "done"
           /\ bm'.browser = NoHandle
           /\ fs' = fs
           /\ cm' = cm ]_vars

\* a signal ended the process after the browser was closed; the snapshot
\* of the run is still there
C18_Witness ==
    /\ halt = "signal"
    /\ \E k \in Cleanups : /\ cl[k].by = "signal"
                            /\ cl[k].pc = "done"
                            /\ cl[k].browser # NoHandle
                            /\ chrome[cl[k].browser] = "closed"
    /\ HasCheckpoint(cm, fs)
    /\ cm.progress.processedCount = 1

\* C21: whatever the batch size, the pacing delay between two consecutive
\* batches is between 1 and 2 seconds.
C21_DelayBounds ==
    pace.pc = "delay" => (pace.delayMs >= 1000 /\ pace.delayMs <= 2000)

\* C27 as stated: the loop waits after a batch exactly when another batch
\* follows, and a larger batch size waits longer than a smaller one.
C27_Pacing_Stated ==
    [][ (pace.pc = "loop" /\ pace.batchStart < pace.rows) =>
          /\ pace'.pc = "delay" <=>
               Min(pace.batchStart + pace.batchSize, pace.rows) < pace.rows
          /\ pace'.pc = "delay" =>
               \A larger \in PacingSizes :
                  larger > pace.batchSize => DelayMs(larger) > pace'.delayMs ]_vars

\* C27: the loop waits after a batch exactly when another batch follows;
\* a larger batch size never waits less than a smaller one and waits
\* longer once it is above 10.
C27_Pacing ==
    [][ (pace.pc = "loop" /\ pace.batchStart < pace.rows) =>
          /\ pace'.pc = "delay" <=>
               Min(pace.batchStart + pace.batchSize, pace.rows) < pace.rows
          /\ pace'.pc = "delay" =>
               \A larger \in PacingSizes :
                  larger > pace.batchSize =>
                     /\ DelayMs(larger) >= pace'.delayMs
                     /\ larger > 10 => DelayMs(larger) > pace'.delayMs ]_vars

\* a run with batches of 20 waits 2 seconds before its second batch
C27_Witness ==
    /\ pace.pc = "delay"
    /\ pace.batchSize = 20
    /\ pace.delayMs = 2000
    /\ pace.batchStart = 0

-----------------------------------------------------------------------------
(* Claims about split-enex, checked under SpecSplit.                       *)

\* a text that is a decimal number: a sign, digits, at most one point
IsDecimalText(text) ==
    LET body == IF Head(text) = "-" THEN Tail(text) ELSE text
    IN  /\ \A i \in 1..Len(body) : IsDigit(body[i]) \/ body[i] = "."
        /\ \E i \in 1..Len(body) : IsDigit(body[i])
        /\ Cardinality({ i \in 1..Len(body) : body[i] = "." }) <= 1
IsWholeText(text) ==
    IsDecimalText(text) /\ \A i \in 1..Len(text) : text[i] # "."
IsNonPositiveText(text) ==
    /\ IsDecimalText(text)
    /\ Head(text) = "-" \/ \A i \in 1..Len(text) : text[i] \in {"0", "."}

RECURSIVE Concat(_)
Concat(chunks) ==
    IF chunks = <<>> THEN <<>> ELSE Head(chunks) \o Concat(Tail(chunks))

\* C22: split-enex with n notes per file writes ceil(total / n) files, each
\* of at most n notes and every one but the last of exactly n, whose notes
\* in part order are the notes of the input in their order; when n is not
\* positive or not a number no file is written and the process exits with
\* an error.
C22_Split_Stated ==
    split.pc = "done" =>
      /\ (split.exit = "0" /\ IsWholeText(split.option)) =>
           LET n == ParseInt(split.option).value
               count == Len(split.files)
           IN  /\ count = TotalFiles(Len(split.notes), n)
               /\ \A f \in 1..count : Len(split.files[f]) <= n
               /\ \A f \in 1..(count - 1) : Len(split.files[f]) = n
               /\ Concat(split.files) = split.notes
      /\ (~IsDecimalText(split.option) \/ IsNonPositiveText(split.option)) =>
           (split.files = <<>> /\ split.exit = "1")

-----------------------------------------------------------------------------
(* Claims about the progress of a run, checked under Spec.                 *)

\* C23: at every moment of a run, fresh or resumed, the progress has
\* processedCount = lastProcessedIndex + 1 and holds no more notes than
\* processedCount.
C23_ProgressInvariant ==
    /\ cm.progress.processedCount = cm.progress.lastProcessedIndex + 1
    /\ Len(cm.progress.processedNotes) <= cm.progress.processedCount

\* a resumed run has committed a record beyond those it restored
C23_Witness ==
    /\ restored
    /\ startIndex > 0
    /\ cm.progress.processedCount > startIndex
    /\ cm.progress.processedNotes # <<>>

\* a processRecord call of the running process has not settled
InFlight ==
    /\ pc \in {"batch", "loop", "delay"}
    /\ \E i \in 1..Len(settled) : settled[i] = NoResult

\* C24: no processRecord call of the next batch starts before every call of
\* the batch has settled: while a call is in flight no processRecord is
\* called, and the calls in flight are those of the batch at batchStart.
C24_NoOverlap ==
    [][ InFlight => (invoked' = invoked /\ batchStart' = batchStart) ]_vars

\* the second batch is in flight, one of its calls settled and one not
C24_Witness ==
    /\ pc = "batch"
    /\ batchStart > 0
    /\ \E i, j \in 1..Len(settled) : settled[i] = NoResult /\ settled[j] # NoResult

\* C25: the progress is unchanged while a call of the batch is in flight;
\* once the batch has settled updateProgress is called once per record in
\* increasing input index: lastProcessedIndex grows by 1 at each update,
\* by the size of the batch over the commit, and never decreases.
C25_CommitInOrder ==
    [][ /\ (pc = "batch" /\ ~AllSettled(settled)) => cm'.progress = cm.progress
        /\ (pc = "batch" /\ pc' \in {"loop", "delay"}) =>
             LET order == SortByOriginalIndex(
                              PromiseAll(settled, startIndex + batchStart))
                 before == cm.progress.lastProcessedIndex
                 st == [cm |-> cm, fs |-> fs, clock |-> clock,
                        results |-> results]
             IN  /\ Len(order) = Len(settled)
                 /\ \A k \in 1..Len(order) : \A wr \in WriteOutcomes :
                      CommitBatch(st, SubSeq(order, 1, k), wr)
                          .cm.progress.lastProcessedIndex = before + k
                 /\ cm'.progress.lastProcessedIndex = before + Len(settled)
        /\ pc # "off" =>
             cm'.progress.lastProcessedIndex >= cm.progress.lastProcessedIndex
      ]_vars

\* the second batch of three, settled out of order, has been committed
C25_Witness ==
    /\ pc = "delay"
    /\ batchStart = 3
    /\ outOfOrder
    /\ cm.progress.lastProcessedIndex = 5

\* the step writes a whole snapshot file
SnapshotWritten ==
    /\ fs'[cm.checkpointPath] # fs[cm.checkpointPath]
    /\ fs'[cm.checkpointPath].kind = "json"
WrittenCount == Parse(fs'[cm.checkpointPath]).processedCount

\* C26: over a whole run with interval N every write of the snapshot file
\* happens at a processed count that is a multiple of N, the writes of the
\* success and failure tails included.
C26_WritesAtMultiples_Stated ==
    [][ SnapshotWritten => WrittenCount % cm.interval = 0 ]_vars

\* C26 with the failure tail set apart: the writes of the batch loop happen
\* at multiples of N, the success tail writes no snapshot, and the failure
\* tail writes one at the count the run has reached.
C26_WritesAtMultiples ==
    [][ SnapshotWritten =>
          \/ pc = "batch" /\ WrittenCount % cm.interval = 0
          \/ /\ pc = "loop"
             /\ pc' = "failwait"
             /\ WrittenCount = cm.progress.processedCount ]_vars

\* the batch loop has written the snapshot at count 2 with interval 2
C26_Witness ==
    /\ pc \in {"loop", "delay"}
    /\ cm.interval = 2
    /\ fs[cm.checkpointPath].kind = "json"
    /\ Parse(fs[cm.checkpointPath]).processedCount = 2
    /\ ~restored

-----------------------------------------------------------------------------
(* Claims about the browser of concurrent getPage calls, checked under     *)
(* SpecLease.                                                              *)

\* C28: at most one browser process launched by BrowserManager is alive at
\* any time, also when several records of a batch ask for a page while no
\* browser is running.
C28_SingleBrowser ==
    Cardinality({ b \in DOMAIN chrome : chrome[b] = "running" }) <= 1

\* the step leases a page to call c
LeasedTo(c) == sc[c].page = NoHandle /\ sc'[c].page # NoHandle

\* C29: the lease counter grows by exactly 1 per successful getPage and is
\* neither reset nor decreased; the browser is restarted exactly once each
\* time the counter stands at a positive multiple of 1000, also when the
\* getPage calls of a batch overlap: a restart happens only at a multiple,
\* no second call restarts at the same multiple, and no page is leased at a
\* multiple by a call that did not restart.
C29_RestartOnce ==
    [][ /\ bm'.processedCount =
             bm.processedCount + Cardinality({ c \in DOMAIN sc : LeasedTo(c) })
        /\ \A c \in DOMAIN sc :
             /\ (~sc[c].restarted /\ sc'[c].restarted) =>
                  /\ ShouldRestart(bm)
                  /\ \A d \in DOMAIN sc : ~sc[d].restarted
             /\ (LeasedTo(c) /\ ShouldRestart(bm)) => sc[c].restarted
      ]_vars

\* C30: the restart of the browser by one getPage call never closes a page
\* leased to another call: a leased page is open until it is released.
C30_LeasedStaysOpen ==
    \A t \in DOMAIN tabs : tabs[t].lease = "leased" => tabs[t].state = "open"

\* C31: a released page goes back to the pool for reuse, and the pool
\* never holds more than its bound of pages.
C31_ReleasedPooled ==
    /\ \A t \in DOMAIN tabs :
         tabs[t].lease = "released" =>
           \E i \in 1..Len(bm.pagePool) : bm.pagePool[i] = t
    /\ Len(bm.pagePool) <= MaxPages

-----------------------------------------------------------------------------
(* Claims about the floor of the extractors, checked under SpecExtract.    *)

\* scrapeContent found a content element and tested its text
LightweightTested ==
    /\ web.http # JsNull
    /\ web.http.kind = "html"
    /\ web.http.nav + TextLength(web.http.sentences) > MinElementText
\* scrapeWithPuppeteer obtained the text of the page and tested it
BrowserTested ==
    /\ web.browser # JsNull
    /\ web.browser.kind = "content"
    /\ pr.pc = "settled"

\* C32: both extractors apply the same floor: text of fewer than 50
\* characters is a failure, text of exactly 50 characters is decided alike
\* by both (it is accepted), and text the floor accepts is not reported as
\* a failure afterwards.
C32_SameFloor ==
    /\ LightweightTested =>
         (TextLength(web.http.sentences) < ContentFloor
            <=> HasFailureMarker(pr.lightweight))
    /\ BrowserTested =>
         (TextLength(web.browser.sentences) < ContentFloor
            <=> HasFailureMarker(pr.scrapedContent))
    /\ (pr.pc = "settled" /\ ~CreateNoteThrows(pr.row)) =>
         /\ (BrowserTested
               /\ TextLength(web.browser.sentences) >= ContentFloor)
              => pr.result.success
         /\ (LightweightTested /\ web.browser = JsNull
               /\ TextLength(web.http.sentences) >= ContentFloor)
              => pr.result.success

\* scrapeContent was called on a URL whose path ends in a binary extension
BinaryUrl == web.http # JsNull /\ web.http.kind = "binary"

-----------------------------------------------------------------------------
(* Claims about the catch block of processRecord, checked under            *)
(* SpecRecord.                                                             *)

\* C34: when createNote throws on the record and the extracted text,
\* processRecord falls back to the link-only note of the same record and
\* returns it with success = false: the note of its result is not null.
C34_FallbackNote ==
    (pr.pc = "settled" /\ pr.opts # JsNull /\ CreateNoteThrows(pr.row)) =>
      /\ ~pr.result.success
      /\ pr.result.note # JsNull
      /\ pr.result.note = CreateNote(pr.row, NoContent)

\* what the browser extractor returned to the settled call, if called
BrowserTextOf(p) == IF Len(p.called) = 2 THEN p.scrapedContent ELSE NoContent

\* C35: the success flag depends on the extraction outcome only: the call
\* returns the flag it returns for the same options and extractor texts on
\* a record whose note is built without an error.
C35_SuccessIndependent ==
    pr.pc = "settled" =>
      pr.result.success =
        ProcessRecord(Row(pr.row.url, TRUE), pr.opts,
                      pr.lightweight, BrowserTextOf(pr)).success

-----------------------------------------------------------------------------
(* SpecFallback: one batch of the batch loop of convertCsvToEnex, reduced  *)
(* to its try block and its catch block.  The rows are rows of the CSV     *)
(* file, for which createNote returns a note.  Records are numbered by     *)
(* their position in the batch; fb.success holds the success flag of each  *)
(* record's result; fb.results holds, per note pushed to results, the      *)
(* record it is for; fb.updates holds, per updateProgress call that        *)
(* returned, the record it was for and the kind of its failedUrl argument: *)
(* "null", "id" for `record_${originalIndex}`, "url" for row.url.          *)
(* processRecord never rejects, so the awaited Promise.all resolves; an    *)
(* error the try block does not expect is an input, raised by an           *)
(* updateProgress call.                                                    *)

MaxFallbackBatch == 3

FbFrame ==
    UNCHANGED <<pr, cm, fs, clock, call, doc, runVars, web, browserVars, pace, split, gen>>

FbInit == PrInit

\* the body of the for...of loop of the try block for the record at
\* position f.k, whose result has a note: the note is pushed, then
\* updateProgress is called
CommitRecord(f, raised) ==
    LET pushed == [f EXCEPT !.results = Append(@, f.k)]
        update == [record |-> f.k,
                   failedUrl |-> IF f.success[f.k] THEN "null" ELSE "id"]
    IN  IF raised
        THEN [pushed EXCEPT !.pc = "catch", !.caught = TRUE, !.i = 1]
        ELSE [pushed EXCEPT !.updates = Append(@, update), !.k = @ + 1,
                            !.pc = IF f.k = f.size THEN "done" ELSE "commit"]

\* the body of the for loop of the catch block for the record at position
\* f.i: createNote(row, null), push, updateProgress; when that raises, the
\* inner catch calls updateProgress again, outside any try
FallbackRecord(f, raised, raisedAgain) ==
    LET pushed == [f EXCEPT !.results = Append(@, f.i)]
        update == [record |-> f.i, failedUrl |-> "url"]
        after == IF f.i = f.size THEN "done" ELSE "catch"
    IN  IF raised /\ raisedAgain
        THEN [pushed EXCEPT !.pc = "failed"]
        ELSE [pushed EXCEPT !.updates = Append(@, update), !.i = @ + 1,
                            !.pc = after]

\* the batch is cut and its processRecord calls are started
FbStart ==
    /\ fb.pc = "off"
    /\ \E size \in 1..MaxFallbackBatch :
         fb' = [FbIdle EXCEPT !.pc = "await", !.size = size]
    /\ FbFrame

\* await Promise.all(batchPromises) returns the results, each with its
\* success flag; they are sorted
FbResolved ==
    /\ fb.pc = "await"
    /\ \E flags \in [1..fb.size -> BOOLEAN] :
         fb' = [fb EXCEPT !.pc = "commit", !.k = 1, !.success = flags]
    /\ FbFrame

FbCommit ==
    /\ fb.pc = "commit"
    /\ \E raised \in BOOLEAN : fb' = CommitRecord(fb, raised)
    /\ FbFrame

FbFallback ==
    /\ fb.pc = "catch"
    /\ \E raised \in BOOLEAN, raisedAgain \in BOOLEAN :
         fb' = FallbackRecord(fb, raised, raisedAgain)
    /\ FbFrame

\* the loop goes on to the next batch, or the error leaves convertCsvToEnex
FbEnd ==
    /\ fb.pc \in {"done", "failed"}
    /\ fb' = FbIdle
    /\ FbFrame

FbNext == FbStart \/ FbResolved \/ FbCommit \/ FbFallback \/ FbEnd

SpecFallback == FbInit /\ [][FbNext]_vars

\* the number of notes in results that are for record r, and the number
\* of updateProgress calls that returned and were for record r
NotesFor(f, r) == Cardinality({ j \in 1..Len(f.results) : f.results[j] = r })
UpdatesFor(f, r) ==
    Cardinality({ j \in 1..Len(f.updates) : f.updates[j].record = r })

(* C36: when the try block of a batch raised and the catch block ran to    *)
(* its end, every record of the batch has exactly one note in results and  *)
(* exactly one updateProgress call that returned, the records committed    *)
(* before the error included.                                              *)
C36_FallbackOnce ==
    (fb.pc = "done" /\ fb.caught) =>
      \A r \in 1..fb.size :
        /\ NotesFor(fb, r) = 1
        /\ UpdatesFor(fb, r) = 1

-----------------------------------------------------------------------------
(* Claims about the failed identifiers                                     *)

\* the number of identifiers pushed to failedUrls for record r
IdsFor(f, r) ==
    Cardinality({ j \in 1..Len(f.updates) :
                    f.updates[j].record = r /\ f.updates[j].failedUrl # "null" })

\* the note of a record of the CSV file whose success flag is false: its
\* text holds one of the failure phrases
NoteOfFailure(note) ==
    \/ Includes(note.content, FailedToScrape)
    \/ Includes(note.content, CouldNotExtract)

RECURSIVE FailedIdsOf(_)
FailedIdsOf(notes) ==
    IF notes = <<>> THEN <<>>
    ELSE (IF NoteOfFailure(Head(notes)) THEN <<FailedId(Head(notes).src)>> ELSE <<>>)
         \o FailedIdsOf(Tail(notes))

\* In the runs of Spec, where every batch is committed by its try block,
\* failedUrls holds the identifiers of the failed records among the
\* processed ones, in input order, and is no longer than processedCount.
FailedIdsInRuns ==
    /\ cm.progress.failedUrls = FailedIdsOf(cm.progress.processedNotes)
    /\ Len(cm.progress.failedUrls) <= cm.progress.processedCount

(* C37: once a batch is over, failedUrls has got exactly one identifier    *)
(* for each record of the batch whose success flag is false and none for a *)
(* record that succeeded, so that the identifiers are no more than the     *)
(* records processed.                                                      *)
C37_FailedIds ==
    fb.pc = "done" =>
      \A r \in 1..fb.size : IdsFor(fb, r) = (IF fb.success[r] THEN 0 ELSE 1)

-----------------------------------------------------------------------------
(* Claims about the snapshot and the resume                                *)

\* notes are the notes of the records 0..n-1, in input order
NotesOfRecords(notes, n) ==
    /\ Len(notes) = n
    /\ \A j \in 1..n : notes[j].src = j - 1

(* C38: the snapshot at the checkpoint path holds the notes of exactly the *)
(* records 0..lastProcessedIndex, in input order; a process that restored  *)
(* a snapshot holds the notes of the records before its start index and    *)
(* calls processRecord for the records from its start index on, one after  *)
(* the other, none skipped and none a second time.                         *)
C38_SnapshotConsistent ==
    /\ fs[cm.checkpointPath].kind = "json" =>
         NotesOfRecords(Parse(fs[cm.checkpointPath]).processedNotes,
                        Parse(fs[cm.checkpointPath]).lastProcessedIndex + 1)
    /\ restored =>
         /\ Len(cm.progress.processedNotes) >= startIndex
         /\ NotesOfRecords(SubSeq(cm.progress.processedNotes, 1, startIndex),
                           startIndex)
         /\ \A j \in 1..Len(invoked) : invoked[j] = startIndex + j - 1

\* a process that restored a snapshot has processed records and a snapshot
\* it wrote itself is on the disk
C38_Witness ==
    /\ restored
    /\ startIndex >= 1
    /\ Len(invoked) >= 1
    /\ fs[cm.checkpointPath].kind = "json"
    /\ Parse(fs[cm.checkpointPath]).lastProcessedIndex >= startIndex

\* the process starts at index 0 and its final note list has the note of
\* each record of the file once, in record order
AsFreshRun ==
    /\ startIndex = 0
    /\ tail # "none" => Sources(allNotes) = [j \in 1..total |-> j - 1]

\* without --resume a snapshot on the disk has no effect on the start index
\* or on the final note list
WithoutResumeFresh == ~options.resume /\ pc # "off" => AsFreshRun

(* C39: a process started with --resume that restored no snapshot (the     *)
(* file is absent or does not parse) starts at index 0 and hands to        *)
(* document generation the note list of a run without --resume, each       *)
(* record's note once; a process started without --resume does so whatever *)
(* is at the checkpoint path.                                              *)
C39_ResumeWithoutSnapshot ==
    /\ (options.resume /\ ~restored /\ pc # "off") => AsFreshRun
    /\ WithoutResumeFresh

-----------------------------------------------------------------------------
(* SpecGenerate: the document generation of convertCsvToEnex for a note    *)
(* list some of whose notes the XML builder rejects (a character the       *)
(* builder refuses is left in a title or a text).  A note is its record    *)
(* and whether the builder accepts it.  The process has committed its      *)
(* records; the snapshot file exists when the last commit saved it.        *)

MaxGenNotes == 3

GenFrame ==
    UNCHANGED <<pr, call, runVars, web, browserVars, pace, split, fb>>

GenInit == PrInit

GenOutput == <<"out", ".enex">>

\* the note lists of a run of n records
GenNotes(n) ==
    { [i \in 1..n |-> [src |-> i - 1, valid |-> flags[i]]] :
        flags \in [1..n -> BOOLEAN] }

\* builder.buildObject(createEnexStructure(notes)) throws
BuildThrows(notes) == \E i \in 1..Len(notes) : ~notes[i].valid

\* a recovery that keeps the whole list
ValidNotes_All(notes) == notes

\* the loop of the inner catch: the notes that build on their own
ValidNotes(notes) ==
    LET BuildsAlone(n) == ~BuildThrows(<<n>>)
    IN  SelectSeq(notes, BuildsAlone)

\* From `let xml` to the end of the inner catch: the notes of the XML
\* text, whether the recovery was taken, whether an error leaves the block
BuildXml(notes) ==
    IF ~BuildThrows(notes)
    THEN [raised |-> FALSE, rebuilt |-> FALSE, notes |-> notes]
    ELSE LET validNotes == ValidNotes(notes)
         IN  IF Len(validNotes) = 0 \/ BuildThrows(validNotes)
             THEN [raised |-> TRUE, rebuilt |-> TRUE, notes |-> <<>>]
             ELSE [raised |-> FALSE, rebuilt |-> TRUE, notes |-> validNotes]

\* the batch loop is over: the manager holds the notes of the run
GenStart ==
    /\ GenFrame
    /\ gen.pc = "off"
    /\ \E n \in 0..MaxGenNotes, saved \in BOOLEAN :
         \E notes \in GenNotes(n) :
           LET fresh == NewCheckpointManager(GenOutput, Unset, 0)
               m == [fresh EXCEPT !.progress.processedCount = n,
                                  !.progress.totalCount = n,
                                  !.progress.lastProcessedIndex = n - 1,
                                  !.progress.processedNotes = notes]
               files == [p \in AllPaths |-> Absent]
           IN  /\ cm' = m
               /\ fs' = IF saved
                        THEN WriteFile(files, m.checkpointPath,
                                       Stringify(m.progress), "ok")
                        ELSE files
               /\ gen' = [GenIdle EXCEPT !.pc = "generate", !.notes = notes]
    /\ clock' = 0
    /\ doc' = Absent

\* The try block of the document generation, up to the first await: the
\* XML is built, if need be from the notes that build on their own, and
\* written, and the snapshot is cleaned up; an error takes the failure
\* path, which saves a snapshot.
GenDocument ==
    /\ GenFrame
    /\ gen.pc = "generate"
    /\ \E wrDoc \in WriteOutcomes, wr \in WriteOutcomes, unlinkOk \in BOOLEAN :
         LET x == BuildXml(gen.notes)
             written == IF x.raised THEN fs
                        ELSE WriteFile(fs, GenOutput, EnexDocument(x.notes), wrDoc)
             failed == x.raised \/ WriteThrows(wrDoc)
             s == FailureTail(cm, written, Tick(clock), wr)
         IN  /\ cm' = IF failed THEN s.cm ELSE cm
             /\ fs' = IF failed THEN s.fs ELSE Cleanup(cm, written, unlinkOk)
             /\ doc' = IF failed THEN doc ELSE EnexDocument(x.notes)
             /\ gen' = [gen EXCEPT !.pc = "done",
                                   !.before = fs[cm.checkpointPath],
                                   !.rebuilt = x.rebuilt,
                                   !.thrownBy =
                                       IF x.raised THEN "builder"
                                       ELSE IF WriteThrows(wrDoc) THEN "write"
                                       ELSE "none",
                                   !.disk = IF failed THEN wr ELSE "ok",
                                   !.tail = IF failed THEN "failed" ELSE "ok"]
    /\ clock' = Tick(clock)

\* process.exit
GenEnd ==
    /\ GenFrame
    /\ gen.pc = "done"
    /\ gen' = GenIdle
    /\ UNCHANGED <<cm, fs, clock, doc>>

GenNext == GenStart \/ GenDocument \/ GenEnd

SpecGenerate == GenInit /\ [][GenNext]_vars

\* the notes of the list that the builder accepts, in the order of the list
Accepted(notes) ==
    LET Valid(n) == n.valid
    IN  SelectSeq(notes, Valid)

(* C40: when building the document from the whole list failed and the run  *)
(* wrote a document, the document holds the notes that build on their own, *)
(* in their order in the list, and no other, and while one note builds the *)
(* builder does not fail the run; when no note builds, the run took the    *)
(* failure path: saveCheckpoint stamped the progress and wrote the         *)
(* snapshot where the disk allowed it, and a snapshot that existed has not *)
(* been deleted.                                                           *)
C40_KeepsValidNotes ==
    (gen.pc = "done" /\ gen.rebuilt) =>
      /\ gen.tail = "ok" => doc = EnexDocument(Accepted(gen.notes))
      /\ Accepted(gen.notes) # <<>> => gen.thrownBy # "builder"
      /\ Accepted(gen.notes) = <<>> =>
           /\ gen.tail = "failed"
           /\ cm.progress.timestamp = clock
           /\ gen.disk = "ok" =>
                fs[cm.checkpointPath] = Stringify(cm.progress)
           /\ gen.before # Absent => fs[cm.checkpointPath] # Absent

\* a list of three notes of which the middle one does not build: the
\* document was written with the other two
C40_Witness ==
    /\ gen.pc = "done"
    /\ gen.rebuilt
    /\ gen.tail = "ok"
    /\ Len(gen.notes) = 3
    /\ Sources(doc.notes) = <<0, 2>>

=====
